---------------------------- MODULE Spec2Model ----------------------------
(***************************************************************************)
(* Bank-reconciliation transaction matcher of financial-pdf                *)
(* (src/src/core/formatter.ts, lines 230-530): processReconciliation,      *)
(* matchTransactions, findExactMatches, findFuzzyMatches,                  *)
(* calculateMatchConfidence, calculateStringSimilarity and                 *)
(* calculateReconciliationSummary.                                         *)
(*                                                                         *)
(* Numbers.  The code computes with JavaScript numbers.  The model         *)
(* computes with the same IEEE-754 doubles, bit for bit, NaN included.     *)
(* Rat(n, d) is the double of the decimal literal n/d (0.4 is Rat(4, 10)). *)
(*                                                                         *)
(* Strings.  A string is the sequence of its UTF-16 code units, as         *)
(* numbers, so that includes, split and toLowerCase are computed over      *)
(* every string of the language and not assumed.                           *)
(*                                                                         *)
(* Arrays.  An array is a reference into heap, so that a working copy and  *)
(* the caller's array are different objects only because the code copies.  *)
(***************************************************************************)
EXTENDS Integers, Sequences, FiniteSets, TLC

(***************************************************************************)
(* JavaScript numbers: IEEE-754 doubles                                    *)
(*                                                                         *)
(* A double is [sign, m, e] with value sign * m * 2^e: m is a natural      *)
(* number below 2^53 written in digits of LimbBits bits, at least 2^52     *)
(* unless e is MinExponent (a subnormal, or zero).  NaN has sign 0.        *)
(* Every operation rounds the exact result to the nearest double, ties to  *)
(* even, as the + - * / of the code do.  The sign of zero is not kept: it  *)
(* shows only in a division by zero, which the code performs only as 0/0.  *)
(***************************************************************************)
Abs(x) == IF x < 0 THEN -x ELSE x

\* A natural number of any size is the sequence of its digits in base
\* LimbBase, the lowest first.
LimbBits == 14

LimbBase == 16384

Limb(m, k) == IF k >= 1 /\ k <= Len(m) THEN m[k] ELSE 0

\* The number of bits of a digit.
RECURSIVE BitsOf(_)
BitsOf(x) == IF x = 0 THEN 0 ELSE 1 + BitsOf(x \div 2)

\* The number of bits of m.
RECURSIVE BitLength(_)
BitLength(m) ==
    IF Len(m) = 0 THEN 0
    ELSE IF m[Len(m)] # 0 THEN LimbBits * (Len(m) - 1) + BitsOf(m[Len(m)])
    ELSE BitLength(SubSeq(m, 1, Len(m) - 1))

\* floor(m / 2^s) in n digits; s < 0 shifts to the left.
Shift(m, s, n) ==
    LET q == s \div LimbBits
        r == s % LimbBits
    IN  [k \in 1..n |->
            (Limb(m, k + q) \div 2^r) + (Limb(m, k + q + 1) % 2^r) * 2^(LimbBits - r)]

\* The digits of the number whose k-th column holds cols[k] (a column may
\* exceed the base or be negative), the number being >= 0 and < base^Len.
RECURSIVE Carry(_, _, _)
Carry(cols, k, carry) ==
    IF k > Len(cols) THEN <<>>
    ELSE <<(cols[k] + carry) % LimbBase>>
         \o Carry(cols, k + 1, (cols[k] + carry) \div LimbBase)

\* a + sign * b in n digits, the result being >= 0
AddLimbs(a, b, sign, n) == Carry([k \in 1..n |-> Limb(a, k) + sign * Limb(b, k)], 1, 0)

LimbsLT(a, b) ==
    \E k \in 1..(Len(a) + Len(b)) :
        /\ Limb(a, k) < Limb(b, k)
        /\ \A j \in (k + 1)..(Len(a) + Len(b)) : Limb(a, j) = Limb(b, j)

\* a * b for two numbers of at most four digits, in eight digits
MulLimbs(a, b) ==
    Carry([k \in 1..8 |->
              Limb(a, 1) * Limb(b, k) + Limb(a, 2) * Limb(b, k - 1)
              + Limb(a, 3) * Limb(b, k - 2) + Limb(a, 4) * Limb(b, k - 3)], 1, 0)

(* IEEE-754 doubles *)
MantissaBits == 53

MinExponent == -1074

MaxExponent == 971

NaN == [sign |-> 0, m |-> <<0, 0, 0, 0>>, e |-> 0]

IsNaN(x) == x.sign = 0

Zero == [sign |-> 1, m |-> <<0, 0, 0, 0>>, e |-> MinExponent]

IsZero(x) == x.sign # 0 /\ x.m = <<0, 0, 0, 0>>

Infinity(sign) == [sign |-> sign, m |-> <<0, 0, 0, 1024>>, e |-> MaxExponent + 1]

IsInfinite(x) == x.sign # 0 /\ x.e = MaxExponent + 1

\* The double sign * m * 2^e for m of at most 53 bits, or of 54 bits when
\* rounding up has carried into bit 53: zero, infinity on overflow.
Finite(sign, m, e) ==
    IF m = <<0, 0, 0, 0>> THEN Zero
    ELSE IF m[4] = 2048
    THEN (IF e + 1 > MaxExponent THEN Infinity(sign)
          ELSE [sign |-> sign, m |-> <<0, 0, 0, 1024>>, e |-> e + 1])
    ELSE IF e > MaxExponent THEN Infinity(sign)
    ELSE [sign |-> sign, m |-> m, e |-> e]

\* Dropping the s lowest bits of m rounds up: bit s - 1 is 1 and either a
\* lower bit is 1 or bit s is (ties to even).
RoundsUp(m, s) ==
    LET p == s - 1
    IN  /\ s > 0
        /\ (Limb(m, p \div LimbBits + 1) \div 2^(p % LimbBits)) % 2 = 1
        /\ \/ (Limb(m, s \div LimbBits + 1) \div 2^(s % LimbBits)) % 2 = 1
           \/ Limb(m, p \div LimbBits + 1) % 2^(p % LimbBits) # 0
           \/ \E k \in 1..(p \div LimbBits) : Limb(m, k) # 0

\* The double nearest to sign * m * 2^e once the s lowest bits of m are
\* dropped (s <= 0 appends -s zero bits and is exact).
DropBits(sign, m, e, s) ==
    Finite(sign,
           AddLimbs(Shift(m, s, 4), IF RoundsUp(m, s) THEN <<1>> ELSE <<0>>, 1, 4),
           e + s)

\* The double nearest to sign * m * 2^e (ties to even): the mantissa keeps
\* MantissaBits bits, fewer where the exponent would fall below MinExponent.
RoundToDouble(sign, m, e) ==
    DropBits(sign, m, e,
             IF BitLength(m) - MantissaBits > MinExponent - e
             THEN BitLength(m) - MantissaBits ELSE MinExponent - e)

\* The double of an integer (of at most 31 bits).
Num(k) ==
    RoundToDouble(IF k < 0 THEN -1 ELSE 1,
                  <<Abs(k) % LimbBase, (Abs(k) \div LimbBase) % LimbBase,
                    Abs(k) \div (LimbBase * LimbBase)>>, 0)

\* |x| < |y| for two doubles that are not NaN
MagnitudeLT(x, y) == x.e < y.e \/ (x.e = y.e /\ LimbsLT(x.m, y.m))

\* x + y for two finite doubles, |x| >= |y|, neither zero
AddOrdered(x, y) ==
    IF x.e - y.e > 60 THEN x
    ELSE RoundToDouble(x.sign,
                       AddLimbs(Shift(x.m, y.e - x.e, 9), y.m, x.sign * y.sign, 9),
                       y.e)

NumAdd(x, y) ==
    IF IsNaN(x) \/ IsNaN(y) THEN NaN
    ELSE IF IsInfinite(x) THEN (IF IsInfinite(y) /\ y.sign # x.sign THEN NaN ELSE x)
    ELSE IF IsInfinite(y) THEN y
    ELSE IF IsZero(x) THEN y
    ELSE IF IsZero(y) THEN x
    ELSE AddOrdered(IF MagnitudeLT(x, y) THEN y ELSE x,
                    IF MagnitudeLT(x, y) THEN x ELSE y)

NumSub(x, y) ==
    NumAdd(x, IF IsNaN(y) \/ IsZero(y) THEN y ELSE [y EXCEPT !.sign = -y.sign])

NumMul(x, y) ==
    IF IsNaN(x) \/ IsNaN(y) THEN NaN
    ELSE IF IsInfinite(x) \/ IsInfinite(y)
    THEN (IF IsZero(x) \/ IsZero(y) THEN NaN ELSE Infinity(x.sign * y.sign))
    ELSE IF IsZero(x) \/ IsZero(y) THEN Zero
    ELSE RoundToDouble(x.sign * y.sign, MulLimbs(x.m, y.m), x.e + y.e)

\* The first guess at the next digit of the quotient of r * LimbBase by d,
\* the highest digit of d being at least LimbBase / 2: the digit or up to
\* two more.
Trial(r, d) ==
    IF (Limb(r, 4) * LimbBase + Limb(r, 3)) \div d[4] > LimbBase - 1 THEN LimbBase - 1
    ELSE (Limb(r, 4) * LimbBase + Limb(r, 3)) \div d[4]

\* Twice the quotient of r * LimbBase^n by d (r < d, four digits each), plus
\* 1 when a remainder is left; digits holds the digits found so far and
\* low counts the guesses at the next digit that were too high.
RECURSIVE LongDivision(_, _, _, _, _)
LongDivision(r, d, n, digits, low) ==
    IF n = 0
    THEN Carry([k \in 1..5 |->
                   2 * Limb(digits, k) + (IF k = 1 /\ BitLength(r) # 0 THEN 1 ELSE 0)],
               1, 0)
    ELSE IF LimbsLT(<<0>> \o r,
                    Carry([k \in 1..5 |-> Limb(d, k) * (Trial(r, d) - low)], 1, 0))
    THEN LongDivision(r, d, n, digits, low + 1)
    ELSE LongDivision(
             SubSeq(Carry([k \in 1..5 |->
                              Limb(<<0>> \o r, k) - Limb(d, k) * (Trial(r, d) - low)],
                          1, 0), 1, 4),
             d, n - 1, <<Trial(r, d) - low>> \o digits, 0)

\* x / y for two finite doubles, neither zero: the mantissas are aligned at
\* 55 and 56 bits, so that the quotient has four digits.
DivideFinite(x, y) ==
    RoundToDouble(x.sign * y.sign,
                  LongDivision(Shift(x.m, BitLength(x.m) - 55, 4),
                               Shift(y.m, BitLength(y.m) - 56, 4), 4, <<>>, 0),
                  x.e - y.e + BitLength(x.m) - BitLength(y.m) - 56)

NumDiv(x, y) ==
    IF IsNaN(x) \/ IsNaN(y) THEN NaN
    ELSE IF IsInfinite(x) THEN (IF IsInfinite(y) THEN NaN ELSE Infinity(x.sign * y.sign))
    ELSE IF IsInfinite(y) THEN Zero
    ELSE IF IsZero(y) THEN (IF IsZero(x) THEN NaN ELSE Infinity(x.sign * y.sign))
    ELSE IF IsZero(x) THEN Zero
    ELSE DivideFinite(x, y)

Rat(n, d) == NumDiv(Num(n), Num(d))

NumLT(x, y) ==
    /\ ~IsNaN(x) /\ ~IsNaN(y)
    /\ IF x.sign # y.sign THEN x.sign < y.sign
       ELSE IF x.sign = 1 THEN MagnitudeLT(x, y) ELSE MagnitudeLT(y, x)

NumLE(x, y) == ~IsNaN(x) /\ ~IsNaN(y) /\ ~NumLT(y, x)

NumGT(x, y) == NumLT(y, x)

NumGE(x, y) == NumLE(y, x)

NumEq(x, y) == ~IsNaN(x) /\ ~IsNaN(y) /\ x = y

MathAbs(x) == IF IsNaN(x) THEN NaN ELSE [x EXCEPT !.sign = 1]

MathMin(x, y) == IF IsNaN(x) \/ IsNaN(y) THEN NaN ELSE IF NumLE(x, y) THEN x ELSE y

MathMaxInt(a, b) == IF a >= b THEN a ELSE b

(***************************************************************************)
(* JavaScript strings                                                      *)
(***************************************************************************)
\* String.prototype.includes: t occurs in s as a contiguous substring.  The
\* empty string occurs in every string.
Includes(s, t) ==
    \E i \in 0..(Len(s) - Len(t)) : SubSeq(s, i + 1, i + Len(t)) = t

\* The characters the class \s of a regular expression matches: tab, line
\* feed, vertical tab, form feed, carriage return, space, the no-break
\* space U+00A0, U+1680, U+2000 to U+200A, the line and paragraph separators
\* U+2028 and U+2029, U+202F, U+205F, U+3000 and U+FEFF.
IsSpace(c) ==
    \/ c \in {9, 10, 11, 12, 13, 32, 160, 5760, 8232, 8233, 8239, 8287, 12288, 65279}
    \/ (c >= 8192 /\ c <= 8202)

\* The code points of the code units of s from index i on: a high surrogate
\* and the low surrogate after it are one code point, any other code unit
\* is its own.
RECURSIVE CodePoints(_, _)
CodePoints(s, i) ==
    IF i > Len(s) THEN <<>>
    ELSE IF /\ i < Len(s)
            /\ s[i] >= 55296 /\ s[i] <= 56319
            /\ s[i + 1] >= 56320 /\ s[i + 1] <= 57343
    THEN <<65536 + (s[i] - 55296) * 1024 + (s[i + 1] - 56320)>> \o CodePoints(s, i + 2)
    ELSE <<s[i]>> \o CodePoints(s, i + 1)

\* The code points toLowerCase changes to one other code point (Unicode 17,
\* the lower-case mappings of UnicodeData.txt), as rows <<first, last, step,
\* delta>> in the order of first: every step-th code point from first to
\* last becomes itself plus delta.
LowerCaseMappings == <<
    <<65, 90, 1, 32>>, <<192, 214, 1, 32>>, <<216, 222, 1, 32>>, <<256, 302, 2, 1>>,
    <<306, 310, 2, 1>>, <<313, 327, 2, 1>>, <<330, 374, 2, 1>>, <<376, 376, 1, -121>>,
    <<377, 381, 2, 1>>, <<385, 385, 1, 210>>, <<386, 388, 2, 1>>, <<390, 390, 1, 206>>,
    <<391, 391, 1, 1>>, <<393, 394, 1, 205>>, <<395, 395, 1, 1>>, <<398, 398, 1, 79>>,
    <<399, 399, 1, 202>>, <<400, 400, 1, 203>>, <<401, 401, 1, 1>>, <<403, 403, 1, 205>>,
    <<404, 404, 1, 207>>, <<406, 406, 1, 211>>, <<407, 407, 1, 209>>, <<408, 408, 1, 1>>,
    <<412, 412, 1, 211>>, <<413, 413, 1, 213>>, <<415, 415, 1, 214>>, <<416, 420, 2, 1>>,
    <<422, 422, 1, 218>>, <<423, 423, 1, 1>>, <<425, 425, 1, 218>>, <<428, 428, 1, 1>>,
    <<430, 430, 1, 218>>, <<431, 431, 1, 1>>, <<433, 434, 1, 217>>, <<435, 437, 2, 1>>,
    <<439, 439, 1, 219>>, <<440, 440, 1, 1>>, <<444, 444, 1, 1>>, <<452, 452, 1, 2>>,
    <<453, 453, 1, 1>>, <<455, 455, 1, 2>>, <<456, 456, 1, 1>>, <<458, 458, 1, 2>>,
    <<459, 475, 2, 1>>, <<478, 494, 2, 1>>, <<497, 497, 1, 2>>, <<498, 500, 2, 1>>,
    <<502, 502, 1, -97>>, <<503, 503, 1, -56>>, <<504, 542, 2, 1>>, <<544, 544, 1, -130>>,
    <<546, 562, 2, 1>>, <<570, 570, 1, 10795>>, <<571, 571, 1, 1>>, <<573, 573, 1, -163>>,
    <<574, 574, 1, 10792>>, <<577, 577, 1, 1>>, <<579, 579, 1, -195>>, <<580, 580, 1, 69>>,
    <<581, 581, 1, 71>>, <<582, 590, 2, 1>>, <<880, 882, 2, 1>>, <<886, 886, 1, 1>>,
    <<895, 895, 1, 116>>, <<902, 902, 1, 38>>, <<904, 906, 1, 37>>, <<908, 908, 1, 64>>,
    <<910, 911, 1, 63>>, <<913, 929, 1, 32>>, <<931, 939, 1, 32>>, <<975, 975, 1, 8>>,
    <<984, 1006, 2, 1>>, <<1012, 1012, 1, -60>>, <<1015, 1015, 1, 1>>, <<1017, 1017, 1, -7>>,
    <<1018, 1018, 1, 1>>, <<1021, 1023, 1, -130>>, <<1024, 1039, 1, 80>>, <<1040, 1071, 1, 32>>,
    <<1120, 1152, 2, 1>>, <<1162, 1214, 2, 1>>, <<1216, 1216, 1, 15>>, <<1217, 1229, 2, 1>>,
    <<1232, 1326, 2, 1>>, <<1329, 1366, 1, 48>>, <<4256, 4293, 1, 7264>>, <<4295, 4295, 1, 7264>>,
    <<4301, 4301, 1, 7264>>, <<5024, 5103, 1, 38864>>, <<5104, 5109, 1, 8>>, <<7305, 7305, 1, 1>>,
    <<7312, 7354, 1, -3008>>, <<7357, 7359, 1, -3008>>, <<7680, 7828, 2, 1>>, <<7838, 7838, 1, -7615>>,
    <<7840, 7934, 2, 1>>, <<7944, 7951, 1, -8>>, <<7960, 7965, 1, -8>>, <<7976, 7983, 1, -8>>,
    <<7992, 7999, 1, -8>>, <<8008, 8013, 1, -8>>, <<8025, 8031, 2, -8>>, <<8040, 8047, 1, -8>>,
    <<8072, 8079, 1, -8>>, <<8088, 8095, 1, -8>>, <<8104, 8111, 1, -8>>, <<8120, 8121, 1, -8>>,
    <<8122, 8123, 1, -74>>, <<8124, 8124, 1, -9>>, <<8136, 8139, 1, -86>>, <<8140, 8140, 1, -9>>,
    <<8152, 8153, 1, -8>>, <<8154, 8155, 1, -100>>, <<8168, 8169, 1, -8>>, <<8170, 8171, 1, -112>>,
    <<8172, 8172, 1, -7>>, <<8184, 8185, 1, -128>>, <<8186, 8187, 1, -126>>, <<8188, 8188, 1, -9>>,
    <<8486, 8486, 1, -7517>>, <<8490, 8490, 1, -8383>>, <<8491, 8491, 1, -8262>>, <<8498, 8498, 1, 28>>,
    <<8544, 8559, 1, 16>>, <<8579, 8579, 1, 1>>, <<9398, 9423, 1, 26>>, <<11264, 11311, 1, 48>>,
    <<11360, 11360, 1, 1>>, <<11362, 11362, 1, -10743>>, <<11363, 11363, 1, -3814>>, <<11364, 11364, 1, -10727>>,
    <<11367, 11371, 2, 1>>, <<11373, 11373, 1, -10780>>, <<11374, 11374, 1, -10749>>, <<11375, 11375, 1, -10783>>,
    <<11376, 11376, 1, -10782>>, <<11378, 11378, 1, 1>>, <<11381, 11381, 1, 1>>, <<11390, 11391, 1, -10815>>,
    <<11392, 11490, 2, 1>>, <<11499, 11501, 2, 1>>, <<11506, 11506, 1, 1>>, <<42560, 42604, 2, 1>>,
    <<42624, 42650, 2, 1>>, <<42786, 42798, 2, 1>>, <<42802, 42862, 2, 1>>, <<42873, 42875, 2, 1>>,
    <<42877, 42877, 1, -35332>>, <<42878, 42886, 2, 1>>, <<42891, 42891, 1, 1>>, <<42893, 42893, 1, -42280>>,
    <<42896, 42898, 2, 1>>, <<42902, 42920, 2, 1>>, <<42922, 42922, 1, -42308>>, <<42923, 42923, 1, -42319>>,
    <<42924, 42924, 1, -42315>>, <<42925, 42925, 1, -42305>>, <<42926, 42926, 1, -42308>>, <<42928, 42928, 1, -42258>>,
    <<42929, 42929, 1, -42282>>, <<42930, 42930, 1, -42261>>, <<42931, 42931, 1, 928>>, <<42932, 42946, 2, 1>>,
    <<42948, 42948, 1, -48>>, <<42949, 42949, 1, -42307>>, <<42950, 42950, 1, -35384>>, <<42951, 42953, 2, 1>>,
    <<42955, 42955, 1, -42343>>, <<42956, 42970, 2, 1>>, <<42972, 42972, 1, -42561>>, <<42997, 42997, 1, 1>>,
    <<65313, 65338, 1, 32>>, <<66560, 66599, 1, 40>>, <<66736, 66771, 1, 40>>, <<66928, 66938, 1, 39>>,
    <<66940, 66954, 1, 39>>, <<66956, 66962, 1, 39>>, <<66964, 66965, 1, 39>>, <<68736, 68786, 1, 64>>,
    <<68944, 68965, 1, 32>>, <<71840, 71871, 1, 32>>, <<93760, 93791, 1, 32>>, <<93856, 93880, 1, 27>>,
    <<125184, 125217, 1, 34>>>>

\* The lower case of c as the rows from the lo-th to the hi-th give it,
\* found by halving: the rows do not overlap.
RECURSIVE LowerFrom(_, _, _)
LowerFrom(c, lo, hi) ==
    IF lo > hi THEN c
    ELSE IF c < LowerCaseMappings[(lo + hi) \div 2][1]
    THEN LowerFrom(c, lo, ((lo + hi) \div 2) - 1)
    ELSE IF c > LowerCaseMappings[(lo + hi) \div 2][2]
    THEN LowerFrom(c, ((lo + hi) \div 2) + 1, hi)
    ELSE IF (c - LowerCaseMappings[(lo + hi) \div 2][1])
                % LowerCaseMappings[(lo + hi) \div 2][3] = 0
    THEN c + LowerCaseMappings[(lo + hi) \div 2][4]
    ELSE c

\* The code point toLowerCase turns the code point c into, apart from the
\* two it treats on their own (U+0130 and U+03A3 at the end of a word).
LowerChar(c) == LowerFrom(c, 1, Len(LowerCaseMappings))

\* The ranges <<first, last>> of the code points that are Case_Ignorable
\* (Unicode 17).
CaseIgnorable == <<
    <<39, 39>>, <<46, 46>>, <<58, 58>>, <<94, 94>>, <<96, 96>>,
    <<168, 168>>, <<173, 173>>, <<175, 175>>, <<180, 180>>, <<183, 184>>,
    <<688, 879>>, <<884, 885>>, <<890, 890>>, <<900, 901>>, <<903, 903>>,
    <<1155, 1161>>, <<1369, 1369>>, <<1375, 1375>>, <<1425, 1469>>, <<1471, 1471>>,
    <<1473, 1474>>, <<1476, 1477>>, <<1479, 1479>>, <<1524, 1524>>, <<1536, 1541>>,
    <<1552, 1562>>, <<1564, 1564>>, <<1600, 1600>>, <<1611, 1631>>, <<1648, 1648>>,
    <<1750, 1757>>, <<1759, 1768>>, <<1770, 1773>>, <<1807, 1807>>, <<1809, 1809>>,
    <<1840, 1866>>, <<1958, 1968>>, <<2027, 2037>>, <<2042, 2042>>, <<2045, 2045>>,
    <<2070, 2093>>, <<2137, 2139>>, <<2184, 2184>>, <<2192, 2193>>, <<2199, 2207>>,
    <<2249, 2306>>, <<2362, 2362>>, <<2364, 2364>>, <<2369, 2376>>, <<2381, 2381>>,
    <<2385, 2391>>, <<2402, 2403>>, <<2417, 2417>>, <<2433, 2433>>, <<2492, 2492>>,
    <<2497, 2500>>, <<2509, 2509>>, <<2530, 2531>>, <<2558, 2558>>, <<2561, 2562>>,
    <<2620, 2620>>, <<2625, 2626>>, <<2631, 2632>>, <<2635, 2637>>, <<2641, 2641>>,
    <<2672, 2673>>, <<2677, 2677>>, <<2689, 2690>>, <<2748, 2748>>, <<2753, 2757>>,
    <<2759, 2760>>, <<2765, 2765>>, <<2786, 2787>>, <<2810, 2815>>, <<2817, 2817>>,
    <<2876, 2876>>, <<2879, 2879>>, <<2881, 2884>>, <<2893, 2893>>, <<2901, 2902>>,
    <<2914, 2915>>, <<2946, 2946>>, <<3008, 3008>>, <<3021, 3021>>, <<3072, 3072>>,
    <<3076, 3076>>, <<3132, 3132>>, <<3134, 3136>>, <<3142, 3144>>, <<3146, 3149>>,
    <<3157, 3158>>, <<3170, 3171>>, <<3201, 3201>>, <<3260, 3260>>, <<3263, 3263>>,
    <<3270, 3270>>, <<3276, 3277>>, <<3298, 3299>>, <<3328, 3329>>, <<3387, 3388>>,
    <<3393, 3396>>, <<3405, 3405>>, <<3426, 3427>>, <<3457, 3457>>, <<3530, 3530>>,
    <<3538, 3540>>, <<3542, 3542>>, <<3633, 3633>>, <<3636, 3642>>, <<3654, 3662>>,
    <<3761, 3761>>, <<3764, 3772>>, <<3782, 3782>>, <<3784, 3790>>, <<3864, 3865>>,
    <<3893, 3893>>, <<3895, 3895>>, <<3897, 3897>>, <<3953, 3966>>, <<3968, 3972>>,
    <<3974, 3975>>, <<3981, 3991>>, <<3993, 4028>>, <<4038, 4038>>, <<4141, 4144>>,
    <<4146, 4151>>, <<4153, 4154>>, <<4157, 4158>>, <<4184, 4185>>, <<4190, 4192>>,
    <<4209, 4212>>, <<4226, 4226>>, <<4229, 4230>>, <<4237, 4237>>, <<4253, 4253>>,
    <<4348, 4348>>, <<4957, 4959>>, <<5906, 5908>>, <<5938, 5939>>, <<5970, 5971>>,
    <<6002, 6003>>, <<6068, 6069>>, <<6071, 6077>>, <<6086, 6086>>, <<6089, 6099>>,
    <<6103, 6103>>, <<6109, 6109>>, <<6155, 6159>>, <<6211, 6211>>, <<6277, 6278>>,
    <<6313, 6313>>, <<6432, 6434>>, <<6439, 6440>>, <<6450, 6450>>, <<6457, 6459>>,
    <<6679, 6680>>, <<6683, 6683>>, <<6742, 6742>>, <<6744, 6750>>, <<6752, 6752>>,
    <<6754, 6754>>, <<6757, 6764>>, <<6771, 6780>>, <<6783, 6783>>, <<6823, 6823>>,
    <<6832, 6877>>, <<6880, 6891>>, <<6912, 6915>>, <<6964, 6964>>, <<6966, 6970>>,
    <<6972, 6972>>, <<6978, 6978>>, <<7019, 7027>>, <<7040, 7041>>, <<7074, 7077>>,
    <<7080, 7081>>, <<7083, 7085>>, <<7142, 7142>>, <<7144, 7145>>, <<7149, 7149>>,
    <<7151, 7153>>, <<7212, 7219>>, <<7222, 7223>>, <<7288, 7293>>, <<7376, 7378>>,
    <<7380, 7392>>, <<7394, 7400>>, <<7405, 7405>>, <<7412, 7412>>, <<7416, 7417>>,
    <<7468, 7530>>, <<7544, 7544>>, <<7579, 7679>>, <<8125, 8125>>, <<8127, 8129>>,
    <<8141, 8143>>, <<8157, 8159>>, <<8173, 8175>>, <<8189, 8190>>, <<8203, 8207>>,
    <<8216, 8217>>, <<8228, 8228>>, <<8231, 8231>>, <<8234, 8238>>, <<8288, 8292>>,
    <<8294, 8303>>, <<8305, 8305>>, <<8319, 8319>>, <<8336, 8348>>, <<8400, 8432>>,
    <<11388, 11389>>, <<11503, 11505>>, <<11631, 11631>>, <<11647, 11647>>, <<11744, 11775>>,
    <<11823, 11823>>, <<12293, 12293>>, <<12330, 12333>>, <<12337, 12341>>, <<12347, 12347>>,
    <<12441, 12446>>, <<12540, 12542>>, <<40981, 40981>>, <<42232, 42237>>, <<42508, 42508>>,
    <<42607, 42610>>, <<42612, 42621>>, <<42623, 42623>>, <<42652, 42655>>, <<42736, 42737>>,
    <<42752, 42785>>, <<42864, 42864>>, <<42888, 42890>>, <<42993, 42996>>, <<43000, 43001>>,
    <<43010, 43010>>, <<43014, 43014>>, <<43019, 43019>>, <<43045, 43046>>, <<43052, 43052>>,
    <<43204, 43205>>, <<43232, 43249>>, <<43263, 43263>>, <<43302, 43309>>, <<43335, 43345>>,
    <<43392, 43394>>, <<43443, 43443>>, <<43446, 43449>>, <<43452, 43453>>, <<43471, 43471>>,
    <<43493, 43494>>, <<43561, 43566>>, <<43569, 43570>>, <<43573, 43574>>, <<43587, 43587>>,
    <<43596, 43596>>, <<43632, 43632>>, <<43644, 43644>>, <<43696, 43696>>, <<43698, 43700>>,
    <<43703, 43704>>, <<43710, 43711>>, <<43713, 43713>>, <<43741, 43741>>, <<43756, 43757>>,
    <<43763, 43764>>, <<43766, 43766>>, <<43867, 43871>>, <<43881, 43883>>, <<44005, 44005>>,
    <<44008, 44008>>, <<44013, 44013>>, <<64286, 64286>>, <<64434, 64450>>, <<65024, 65039>>,
    <<65043, 65043>>, <<65056, 65071>>, <<65106, 65106>>, <<65109, 65109>>, <<65279, 65279>>,
    <<65287, 65287>>, <<65294, 65294>>, <<65306, 65306>>, <<65342, 65342>>, <<65344, 65344>>,
    <<65392, 65392>>, <<65438, 65439>>, <<65507, 65507>>, <<65529, 65531>>, <<66045, 66045>>,
    <<66272, 66272>>, <<66422, 66426>>, <<67456, 67461>>, <<67463, 67504>>, <<67506, 67514>>,
    <<68097, 68099>>, <<68101, 68102>>, <<68108, 68111>>, <<68152, 68154>>, <<68159, 68159>>,
    <<68325, 68326>>, <<68900, 68903>>, <<68942, 68942>>, <<68969, 68973>>, <<68975, 68975>>,
    <<69291, 69292>>, <<69317, 69317>>, <<69370, 69375>>, <<69446, 69456>>, <<69506, 69509>>,
    <<69633, 69633>>, <<69688, 69702>>, <<69744, 69744>>, <<69747, 69748>>, <<69759, 69761>>,
    <<69811, 69814>>, <<69817, 69818>>, <<69821, 69821>>, <<69826, 69826>>, <<69837, 69837>>,
    <<69888, 69890>>, <<69927, 69931>>, <<69933, 69940>>, <<70003, 70003>>, <<70016, 70017>>,
    <<70070, 70078>>, <<70089, 70092>>, <<70095, 70095>>, <<70191, 70193>>, <<70196, 70196>>,
    <<70198, 70199>>, <<70206, 70206>>, <<70209, 70209>>, <<70367, 70367>>, <<70371, 70378>>,
    <<70400, 70401>>, <<70459, 70460>>, <<70464, 70464>>, <<70502, 70508>>, <<70512, 70516>>,
    <<70587, 70592>>, <<70606, 70606>>, <<70608, 70608>>, <<70610, 70610>>, <<70625, 70626>>,
    <<70712, 70719>>, <<70722, 70724>>, <<70726, 70726>>, <<70750, 70750>>, <<70835, 70840>>,
    <<70842, 70842>>, <<70847, 70848>>, <<70850, 70851>>, <<71090, 71093>>, <<71100, 71101>>,
    <<71103, 71104>>, <<71132, 71133>>, <<71219, 71226>>, <<71229, 71229>>, <<71231, 71232>>,
    <<71339, 71339>>, <<71341, 71341>>, <<71344, 71349>>, <<71351, 71351>>, <<71453, 71453>>,
    <<71455, 71455>>, <<71458, 71461>>, <<71463, 71467>>, <<71727, 71735>>, <<71737, 71738>>,
    <<71995, 71996>>, <<71998, 71998>>, <<72003, 72003>>, <<72148, 72151>>, <<72154, 72155>>,
    <<72160, 72160>>, <<72193, 72202>>, <<72243, 72248>>, <<72251, 72254>>, <<72263, 72263>>,
    <<72273, 72278>>, <<72281, 72283>>, <<72330, 72342>>, <<72344, 72345>>, <<72544, 72544>>,
    <<72546, 72548>>, <<72550, 72550>>, <<72752, 72758>>, <<72760, 72765>>, <<72767, 72767>>,
    <<72850, 72871>>, <<72874, 72880>>, <<72882, 72883>>, <<72885, 72886>>, <<73009, 73014>>,
    <<73018, 73018>>, <<73020, 73021>>, <<73023, 73029>>, <<73031, 73031>>, <<73104, 73105>>,
    <<73109, 73109>>, <<73111, 73111>>, <<73177, 73177>>, <<73459, 73460>>, <<73472, 73473>>,
    <<73526, 73530>>, <<73536, 73536>>, <<73538, 73538>>, <<73562, 73562>>, <<78896, 78912>>,
    <<78919, 78933>>, <<90398, 90409>>, <<90413, 90415>>, <<92912, 92916>>, <<92976, 92982>>,
    <<92992, 92995>>, <<93504, 93506>>, <<93547, 93548>>, <<94031, 94031>>, <<94095, 94111>>,
    <<94176, 94177>>, <<94179, 94180>>, <<94194, 94195>>, <<110576, 110579>>, <<110581, 110587>>,
    <<110589, 110590>>, <<113821, 113822>>, <<113824, 113827>>, <<118528, 118573>>, <<118576, 118598>>,
    <<119143, 119145>>, <<119155, 119170>>, <<119173, 119179>>, <<119210, 119213>>, <<119362, 119364>>,
    <<121344, 121398>>, <<121403, 121452>>, <<121461, 121461>>, <<121476, 121476>>, <<121499, 121503>>,
    <<121505, 121519>>, <<122880, 122886>>, <<122888, 122904>>, <<122907, 122913>>, <<122915, 122916>>,
    <<122918, 122922>>, <<122928, 122989>>, <<123023, 123023>>, <<123184, 123197>>, <<123566, 123566>>,
    <<123628, 123631>>, <<124139, 124143>>, <<124398, 124399>>, <<124643, 124643>>, <<124646, 124646>>,
    <<124654, 124655>>, <<124661, 124661>>, <<124671, 124671>>, <<125136, 125142>>, <<125252, 125259>>,
    <<127995, 127999>>, <<917505, 917505>>, <<917536, 917631>>, <<917760, 917999>>>>

\* The ranges <<first, last>> of the code points that are Cased and not
\* Case_Ignorable (Unicode 17).
CasedLetters == <<
    <<65, 90>>, <<97, 122>>, <<170, 170>>, <<181, 181>>, <<186, 186>>,
    <<192, 214>>, <<216, 246>>, <<248, 442>>, <<444, 447>>, <<452, 659>>,
    <<662, 687>>, <<880, 883>>, <<886, 887>>, <<891, 893>>, <<895, 895>>,
    <<902, 902>>, <<904, 906>>, <<908, 908>>, <<910, 929>>, <<931, 1013>>,
    <<1015, 1153>>, <<1162, 1327>>, <<1329, 1366>>, <<1376, 1416>>, <<4256, 4293>>,
    <<4295, 4295>>, <<4301, 4301>>, <<4304, 4346>>, <<4349, 4351>>, <<5024, 5109>>,
    <<5112, 5117>>, <<7296, 7306>>, <<7312, 7354>>, <<7357, 7359>>, <<7424, 7467>>,
    <<7531, 7543>>, <<7545, 7578>>, <<7680, 7957>>, <<7960, 7965>>, <<7968, 8005>>,
    <<8008, 8013>>, <<8016, 8023>>, <<8025, 8025>>, <<8027, 8027>>, <<8029, 8029>>,
    <<8031, 8061>>, <<8064, 8116>>, <<8118, 8124>>, <<8126, 8126>>, <<8130, 8132>>,
    <<8134, 8140>>, <<8144, 8147>>, <<8150, 8155>>, <<8160, 8172>>, <<8178, 8180>>,
    <<8182, 8188>>, <<8450, 8450>>, <<8455, 8455>>, <<8458, 8467>>, <<8469, 8469>>,
    <<8473, 8477>>, <<8484, 8484>>, <<8486, 8486>>, <<8488, 8488>>, <<8490, 8493>>,
    <<8495, 8500>>, <<8505, 8505>>, <<8508, 8511>>, <<8517, 8521>>, <<8526, 8526>>,
    <<8544, 8575>>, <<8579, 8580>>, <<9398, 9449>>, <<11264, 11387>>, <<11390, 11492>>,
    <<11499, 11502>>, <<11506, 11507>>, <<11520, 11557>>, <<11559, 11559>>, <<11565, 11565>>,
    <<42560, 42605>>, <<42624, 42651>>, <<42786, 42863>>, <<42865, 42887>>, <<42891, 42894>>,
    <<42896, 42972>>, <<42997, 42998>>, <<43002, 43002>>, <<43824, 43866>>, <<43872, 43880>>,
    <<43888, 43967>>, <<64256, 64262>>, <<64275, 64279>>, <<65313, 65338>>, <<65345, 65370>>,
    <<66560, 66639>>, <<66736, 66771>>, <<66776, 66811>>, <<66928, 66938>>, <<66940, 66954>>,
    <<66956, 66962>>, <<66964, 66965>>, <<66967, 66977>>, <<66979, 66993>>, <<66995, 67001>>,
    <<67003, 67004>>, <<68736, 68786>>, <<68800, 68850>>, <<68944, 68965>>, <<68976, 68997>>,
    <<71840, 71903>>, <<93760, 93823>>, <<93856, 93880>>, <<93883, 93907>>, <<119808, 119892>>,
    <<119894, 119964>>, <<119966, 119967>>, <<119970, 119970>>, <<119973, 119974>>, <<119977, 119980>>,
    <<119982, 119993>>, <<119995, 119995>>, <<119997, 120003>>, <<120005, 120069>>, <<120071, 120074>>,
    <<120077, 120084>>, <<120086, 120092>>, <<120094, 120121>>, <<120123, 120126>>, <<120128, 120132>>,
    <<120134, 120134>>, <<120138, 120144>>, <<120146, 120485>>, <<120488, 120512>>, <<120514, 120538>>,
    <<120540, 120570>>, <<120572, 120596>>, <<120598, 120628>>, <<120630, 120654>>, <<120656, 120686>>,
    <<120688, 120712>>, <<120714, 120744>>, <<120746, 120770>>, <<120772, 120779>>, <<122624, 122633>>,
    <<122635, 122654>>, <<122661, 122666>>, <<125184, 125251>>, <<127280, 127305>>, <<127312, 127337>>,
    <<127344, 127369>>>>

\* The capital sigma at index i of the code points p is in the Final_Sigma
\* context: going back over the case-ignorable code points before it one
\* comes to a cased letter, and going on over those after it one does not.
FinalSigma(p, i) ==
    LET In(c, ranges) ==
            \E k \in DOMAIN ranges : ranges[k][1] <= c /\ c <= ranges[k][2]
    IN  /\ \E j \in 1..(i - 1) :
              /\ In(p[j], CasedLetters)
              /\ \A k \in (j + 1)..(i - 1) : In(p[k], CaseIgnorable)
        /\ ~\E j \in (i + 1)..Len(p) :
              /\ In(p[j], CasedLetters)
              /\ \A k \in (i + 1)..(j - 1) : In(p[k], CaseIgnorable)

\* The code units of the lower case of the code points p from index i on:
\* U+0130 becomes U+0069 U+0307, U+03A3 becomes U+03C2 at the end of a word
\* and U+03C3 elsewhere, a code point above U+FFFF is written as its two
\* surrogates.
RECURSIVE LowerPoints(_, _)
LowerPoints(p, i) ==
    IF i > Len(p) THEN <<>>
    ELSE (IF p[i] = 304 THEN <<105, 775>>
          ELSE IF p[i] = 931 THEN (IF FinalSigma(p, i) THEN <<962>> ELSE <<963>>)
          ELSE IF LowerChar(p[i]) < 65536 THEN <<LowerChar(p[i])>>
          ELSE <<55296 + (LowerChar(p[i]) - 65536) \div 1024,
                 56320 + ((LowerChar(p[i]) - 65536) % 1024)>>)
         \o LowerPoints(p, i + 1)

ToLowerCase(s) == LowerPoints(CodePoints(s, 1), 1)

\* The index of the first white-space character of s at or after i, or
\* Len(s) + 1.
RECURSIVE NextSpace(_, _)
NextSpace(s, i) ==
    IF i > Len(s) THEN Len(s) + 1
    ELSE IF IsSpace(s[i]) THEN i ELSE NextSpace(s, i + 1)

\* The index of the first character of s at or after i that is not white
\* space, or Len(s) + 1.
RECURSIVE NextNonSpace(_, _)
NextNonSpace(s, i) ==
    IF i > Len(s) THEN Len(s) + 1
    ELSE IF IsSpace(s[i]) THEN NextNonSpace(s, i + 1) ELSE i

\* s.split(/\s+/): the pieces between maximal runs of white space; a leading
\* or trailing run leaves an empty piece, and "" splits into [""].
RECURSIVE SplitWhitespace(_)
SplitWhitespace(s) ==
    LET i == NextSpace(s, 1)
    IN  IF i > Len(s) THEN <<s>>
        ELSE <<SubSeq(s, 1, i - 1)>>
                 \o SplitWhitespace(SubSeq(s, NextNonSpace(s, i), Len(s)))

(***************************************************************************)
(* calculateStringSimilarity                                               *)
(***************************************************************************)
\* words2.some(word2 => word2.includes(word1) || word1.includes(word2))
WordMatches(word1, words2) ==
    \E k \in 1..Len(words2) :
        Includes(words2[k], word1) \/ Includes(word1, words2[k])

\* The for loop over words1: the number of words longer than 3 that match.
RECURSIVE CountMatchingWords(_, _, _)
CountMatchingWords(words1, words2, n) ==
    IF n = 0 THEN 0
    ELSE CountMatchingWords(words1, words2, n - 1)
         + (IF Len(words1[n]) > 3 /\ WordMatches(words1[n], words2) THEN 1 ELSE 0)

calculateStringSimilarity(str1, str2) ==
    IF str1 = str2 THEN Num(1)
    ELSE IF Includes(str1, str2) \/ Includes(str2, str1) THEN Rat(8, 10)   \* return 0.8
    ELSE LET words1 == SplitWhitespace(str1)
             words2 == SplitWhitespace(str2)
             matchCount == CountMatchingWords(words1, words2, Len(words1))
         IN  MathMin(Num(1), Rat(matchCount, MathMaxInt(Len(words1), 1)))

(***************************************************************************)
(* calculateMatchConfidence                                                *)
(***************************************************************************)
MsPerDay == 86400000

AmountWeight == Rat(4, 10)

DateWeight == Rat(3, 10)

DescriptionWeight == Rat(2, 10)

ReferenceWeight == Rat(1, 10)

\* A transaction's optional reference: absent (undefined) or a string.
NoReference == [present |-> FALSE, value |-> <<>>]

Reference(s) == [present |-> TRUE, value |-> s]

\* The truth value JavaScript gives a string or undefined in a condition.
Truthy(s) == Len(s) > 0

TruthyReference(r) == r.present /\ Truthy(r.value)

\* An amount block that counts its weight only when the amounts are equal.
AmountFactorSkipsMismatch(acc, bankTx, bookTx, settings) ==
    IF settings.matchByAmount /\ NumEq(bankTx.amount, bookTx.amount)
    THEN [totalScore |-> NumAdd(acc.totalScore, AmountWeight),
          totalWeight |-> NumAdd(acc.totalWeight, AmountWeight)]
    ELSE acc

\* totalScore and totalWeight after the amount block.
AmountFactor(acc, bankTx, bookTx, settings) ==
    IF settings.matchByAmount
    THEN [totalScore |-> IF NumEq(bankTx.amount, bookTx.amount)
           THEN NumAdd(acc.totalScore, AmountWeight) ELSE acc.totalScore,
           totalWeight |-> NumAdd(acc.totalWeight, AmountWeight)]
    ELSE acc

\* A date score that is full for every date within the tolerance.
DateScoreFull(daysDiff, dateTolerance) == Num(1)

\* 1 - (daysDiff / settings.dateTolerance)
DateScore(daysDiff, dateTolerance) ==
    NumSub(Num(1), NumDiv(daysDiff, dateTolerance))

\* totalScore and totalWeight after the date block.
DateFactor(acc, bankTx, bookTx, settings) ==
    IF settings.matchByDate
    THEN LET dateDiff == Abs(bankTx.date - bookTx.date)
             daysDiff == Rat(dateDiff, MsPerDay)
         IN  [totalScore |-> IF NumLE(daysDiff, settings.dateTolerance)
               THEN NumAdd(acc.totalScore,
                      NumMul(DateWeight, DateScore(daysDiff, settings.dateTolerance)))
               ELSE acc.totalScore,
               totalWeight |-> NumAdd(acc.totalWeight, DateWeight)]
    ELSE acc

\* A description block that counts its weight whenever the flag is on.
DescriptionFactorAlwaysWeighted(acc, bankTx, bookTx, settings) ==
    IF settings.matchByDescription
    THEN [totalScore |-> IF Truthy(bankTx.description) /\ Truthy(bookTx.description)
           THEN NumAdd(acc.totalScore,
                  NumMul(DescriptionWeight,
                    calculateStringSimilarity(ToLowerCase(bankTx.description),
                                              ToLowerCase(bookTx.description))))
           ELSE acc.totalScore,
           totalWeight |-> NumAdd(acc.totalWeight, DescriptionWeight)]
    ELSE acc

\* totalScore and totalWeight after the description block.
DescriptionFactor(acc, bankTx, bookTx, settings) ==
    IF settings.matchByDescription
       /\ Truthy(bankTx.description) /\ Truthy(bookTx.description)
    THEN [totalScore |-> NumAdd(acc.totalScore,
             NumMul(DescriptionWeight,
               calculateStringSimilarity(ToLowerCase(bankTx.description),
                                         ToLowerCase(bookTx.description)))),
           totalWeight |-> NumAdd(acc.totalWeight, DescriptionWeight)]
    ELSE acc

\* totalScore and totalWeight after the reference block.
ReferenceFactor(acc, bankTx, bookTx, settings) ==
    IF settings.matchByReference
       /\ TruthyReference(bankTx.reference) /\ TruthyReference(bookTx.reference)
    THEN [totalScore |-> NumAdd(acc.totalScore,
             NumMul(ReferenceWeight,
               calculateStringSimilarity(ToLowerCase(bankTx.reference.value),
                                         ToLowerCase(bookTx.reference.value)))),
           totalWeight |-> NumAdd(acc.totalWeight, ReferenceWeight)]
    ELSE acc

\* return totalWeight > 0 ? totalScore / totalWeight : 0
Normalized(acc) ==
    IF NumGT(acc.totalWeight, Num(0)) THEN NumDiv(acc.totalScore, acc.totalWeight)
    ELSE Num(0)

\* The four blocks in the order of the code, from totalScore = 0 and
\* totalWeight = 0, and the return statement.
calculateMatchConfidence(bankTx, bookTx, settings) ==
    Normalized(
        ReferenceFactor(
            DescriptionFactor(
                DateFactor(
                    AmountFactor([totalScore |-> Num(0), totalWeight |-> Num(0)],
                                 bankTx, bookTx, settings),
                    bankTx, bookTx, settings),
                bankTx, bookTx, settings),
            bankTx, bookTx, settings))

(***************************************************************************)
(* findExactMatches and findFuzzyMatches: the array operations             *)
(***************************************************************************)
\* A read that returns the first element whatever the index.
AtFirst(array, k) == array[1]

\* array[k] for a JavaScript (0-based) index k
At(array, k) == array[k + 1]

\* A push that overwrites the last element when there is one.
PushOverwrite(array, element) ==
    IF array = <<>> THEN <<element>>
    ELSE [array EXCEPT ![Len(array)] = element]

\* array.push(element)
Push(array, element) == Append(array, element)

\* A splice that removes the element after the one asked for.
SpliceNext(array, k) == SubSeq(array, 1, k + 1) \o SubSeq(array, k + 3, Len(array))

\* A splice that removes nothing.
SpliceNothing(array, k) == array

\* A removal that moves the last element into the place of the removed one.
SpliceSwapRemove(array, k) ==
    IF k + 1 >= Len(array) THEN SubSeq(array, 1, k)
    ELSE SubSeq([array EXCEPT ![k + 1] = array[Len(array)]], 1, Len(array) - 1)

\* array.splice(k, 1): the array without its element of index k
Splice(array, k) == SubSeq(array, 1, k) \o SubSeq(array, k + 2, Len(array))

\* An exact-match test that also wants the two types equal.
ExactAgreeSameType(bookTx, bankTx) ==
    /\ NumEq(bookTx.amount, bankTx.amount)
    /\ bookTx.date = bankTx.date
    /\ bookTx.reference = bankTx.reference
    /\ bookTx.type = bankTx.type

\* An exact-match test that forgets the date.
ExactAgreeNoDate(bookTx, bankTx) ==
    /\ NumEq(bookTx.amount, bankTx.amount)
    /\ bookTx.reference = bankTx.reference

\* The condition of the findIndex callback of findExactMatches.
ExactAgree(bookTx, bankTx) ==
    /\ NumEq(bookTx.amount, bankTx.amount)
    /\ bookTx.date = bankTx.date
    /\ bookTx.reference = bankTx.reference

\* A search that returns the highest index whose element agrees.
FindIndexLast(bookTransactions, bankTx, j) ==
    LET found == {n \in j..(Len(bookTransactions) - 1) :
                     ExactAgree(At(bookTransactions, n), bankTx)}
    IN  IF found = {} THEN -1 ELSE CHOOSE n \in found : \A k \in found : k <= n

\* bookTransactions.findIndex(...): the lowest index whose element agrees,
\* scanning from j on, or -1.
RECURSIVE FindIndexFrom(_, _, _)
FindIndexFrom(bookTransactions, bankTx, j) ==
    IF j >= Len(bookTransactions) THEN -1
    ELSE IF ExactAgree(At(bookTransactions, j), bankTx) THEN j
    ELSE FindIndexFrom(bookTransactions, bankTx, j + 1)

\* A search that starts at the second element.
FindIndexSkipFirst(bookTransactions, bankTx) ==
    FindIndexFrom(bookTransactions, bankTx, 1)

FindIndex(bookTransactions, bankTx) == FindIndexFrom(bookTransactions, bankTx, 0)

ExactEntry(bankTx, bookTx) ==
    [bankTransaction |-> bankTx, bookTransaction |-> bookTx,
     confidence |-> Num(1), matchMethod |-> "exact"]

FuzzyEntry(bankTx, bookTx, confidence) ==
    [bankTransaction |-> bankTx, bookTransaction |-> bookTx,
     confidence |-> confidence, matchMethod |-> "fuzzy"]

\* bestMatch = null
NoBest == [found |-> FALSE, index |-> -1, confidence |-> Num(0)]

\* A replacement test under which a later candidate of equal confidence wins.
BetterOrEqual(confidence, bestMatch, settings) ==
    /\ NumGE(confidence, settings.fuzzyThreshold)
    /\ (~bestMatch.found \/ NumGE(confidence, bestMatch.confidence))

\* A replacement test that forgets the threshold.
BetterNoThreshold(confidence, bestMatch, settings) ==
    ~bestMatch.found \/ NumGT(confidence, bestMatch.confidence)

\* The condition under which candidate j replaces bestMatch.
Better(confidence, bestMatch, settings) ==
    /\ NumGE(confidence, settings.fuzzyThreshold)
    /\ (~bestMatch.found \/ NumGT(confidence, bestMatch.confidence))

\* bestMatch after the candidate at index j, whose confidence is given.
BestAfter(confidence, j, bestMatch, settings) ==
    IF Better(confidence, bestMatch, settings)
    THEN [found |-> TRUE, index |-> j, confidence |-> confidence]
    ELSE bestMatch

\* An inner loop that stops after the candidate at index j.
ScanBookOne(bankTx, bookTransactions, settings, j, bestMatch) ==
    IF j >= Len(bookTransactions) THEN bestMatch
    ELSE BestAfter(calculateMatchConfidence(bankTx, At(bookTransactions, j), settings),
                   j, bestMatch, settings)

\* The inner for loop of findFuzzyMatches from index j on.
RECURSIVE ScanBook(_, _, _, _, _)
ScanBook(bankTx, bookTransactions, settings, j, bestMatch) ==
    IF j >= Len(bookTransactions) THEN bestMatch
    ELSE ScanBook(bankTx, bookTransactions, settings, j + 1,
             BestAfter(calculateMatchConfidence(bankTx, At(bookTransactions, j),
                                                settings),
                       j, bestMatch, settings))

\* The values calculateMatchConfidence returns in one run of the inner loop.
Confidences(bankTx, bookTransactions, settings) ==
    [k \in 1..Len(bookTransactions) |->
        calculateMatchConfidence(bankTx, bookTransactions[k], settings)]

(***************************************************************************)
(* calculateReconciliationSummary                                          *)
(***************************************************************************)
\* The book side of the pair instead of the bank side.
MatchedAmountOfBook(match) == match.bookTransaction.amount

\* matched.reduce((sum, match) => sum + match.bankTransaction.amount, 0)
MatchedAmountOf(match) == match.bankTransaction.amount

RECURSIVE ReduceMatched(_, _)
ReduceMatched(matched, n) ==
    IF n = 0 THEN Num(0)
    ELSE NumAdd(ReduceMatched(matched, n - 1), MatchedAmountOf(matched[n]))

\* list.reduce((sum, tx) => sum + tx.amount, 0)
RECURSIVE ReduceAmounts(_, _)
ReduceAmounts(list, n) ==
    IF n = 0 THEN Num(0)
    ELSE NumAdd(ReduceAmounts(list, n - 1), list[n].amount)

Discrepancy(unmatchedBankAmount, unmatchedBookAmount) ==
    NumSub(unmatchedBankAmount, unmatchedBookAmount)

BalanceTolerance == Rat(1, 100)

\* A status that counts a discrepancy of exactly the tolerance as balanced.
StatusInclusive(discrepancy) ==
    IF NumLE(MathAbs(discrepancy), Rat(1, 100)) THEN "balanced" ELSE "unbalanced"

Status(discrepancy) ==
    IF NumLT(MathAbs(discrepancy), BalanceTolerance) THEN "balanced" ELSE "unbalanced"

\* A percentage of the bank transactions only.
MatchPercentageOfBank(matchedLength, unmatchedBankLength, unmatchedBookLength) ==
    LET totalTransactions == matchedLength + unmatchedBankLength
    IN  IF totalTransactions > 0
        THEN NumMul(Rat(matchedLength, totalTransactions), Num(100))
        ELSE Num(100)

\* A percentage that is 0 when there is no transaction at all.
MatchPercentageZeroWhenEmpty(matchedLength, unmatchedBankLength, unmatchedBookLength) ==
    LET totalTransactions == matchedLength + unmatchedBankLength + unmatchedBookLength
    IN  IF totalTransactions > 0
        THEN NumMul(Rat(matchedLength, totalTransactions), Num(100))
        ELSE Num(0)

\* A percentage whose total counts both transactions of every pair.
MatchPercentagePairsTwice(matchedLength, unmatchedBankLength, unmatchedBookLength) ==
    LET totalTransactions ==
            2 * matchedLength + unmatchedBankLength + unmatchedBookLength
    IN  IF totalTransactions > 0
        THEN NumMul(Rat(matchedLength, totalTransactions), Num(100))
        ELSE Num(100)

MatchPercentage(matchedLength, unmatchedBankLength, unmatchedBookLength) ==
    LET totalTransactions == matchedLength + unmatchedBankLength + unmatchedBookLength
    IN  IF totalTransactions > 0
        THEN NumMul(Rat(matchedLength, totalTransactions), Num(100))
        ELSE Num(100)

calculateReconciliationSummary(account, matched, unmatchedBank, unmatchedBook) ==
    LET matchedAmount == ReduceMatched(matched, Len(matched))
        unmatchedBankAmount == ReduceAmounts(unmatchedBank, Len(unmatchedBank))
        unmatchedBookAmount == ReduceAmounts(unmatchedBook, Len(unmatchedBook))
        discrepancy == Discrepancy(unmatchedBankAmount, unmatchedBookAmount)
    IN  [matchedAmount |-> matchedAmount,
         unmatchedBankAmount |-> unmatchedBankAmount,
         unmatchedBookAmount |-> unmatchedBookAmount,
         discrepancy |-> discrepancy,
         status |-> Status(discrepancy),
         matchPercentage |->
             MatchPercentage(Len(matched), Len(unmatchedBank), Len(unmatchedBook))]

(***************************************************************************)
(* Settings                                                                *)
(***************************************************************************)
\* The defaults processReconciliation writes before ...data.settings.
DefaultSettings ==
    [fuzzyMatching |-> TRUE,
     fuzzyThreshold |-> Rat(7, 10),
     matchByAmount |-> TRUE,
     matchByDescription |-> TRUE,
     matchByReference |-> TRUE,
     matchByDate |-> TRUE,
     dateTolerance |-> Num(3),
     autoMatchExact |-> TRUE]

\* A spread in which the defaults overwrite the caller's fields.
ObjectSpreadDefaultsLast(defaults, s) == defaults

\* An optional field of ReconciliationSettings is the set of its values: {}
\* when the caller's object lacks the field, {v} when it holds v.
Own(field, default) == IF field = {} THEN default ELSE CHOOSE v \in field : TRUE

\* { ...defaults, ...data.settings }: a new object with the defaults'
\* fields, each overwritten by the caller's when the caller's object has it.
\* Spreading undefined (data.settings absent) copies nothing.
ObjectSpread(defaults, s) ==
    IF ~s.given THEN defaults
    ELSE [fuzzyMatching |-> Own(s.fuzzyMatching, defaults.fuzzyMatching),
          fuzzyThreshold |-> Own(s.fuzzyThreshold, defaults.fuzzyThreshold),
          matchByAmount |-> Own(s.matchByAmount, defaults.matchByAmount),
          matchByDescription |-> Own(s.matchByDescription, defaults.matchByDescription),
          matchByReference |-> Own(s.matchByReference, defaults.matchByReference),
          matchByDate |-> Own(s.matchByDate, defaults.matchByDate),
          dateTolerance |-> Own(s.dateTolerance, defaults.dateTolerance),
          autoMatchExact |-> Own(s.autoMatchExact, defaults.autoMatchExact)]

\* No copy: the working list is the caller's array.
ArrayAlias(source, fresh) == source

\* [...array]: the reference the spread evaluates to, a newly allocated array.
ArraySpread(source, fresh) == fresh

(***************************************************************************)
(* The functions as a whole: what one call computes from its arguments     *)
(* when nothing else touches its arrays.  A working state is the record of *)
(* the three arrays bank, book, matched.                                   *)
(***************************************************************************)
\* findExactMatches from loop index i on.
RECURSIVE findExactMatches(_, _)
findExactMatches(w, i) ==
    IF i < 0 THEN w
    ELSE LET bankTx == At(w.bank, i)
             bookIndex == FindIndex(w.book, bankTx)
         IN  findExactMatches(
                 IF bookIndex # -1
                 THEN [matched |-> Push(w.matched,
                                     ExactEntry(bankTx, At(w.book, bookIndex))),
                       bank |-> Splice(w.bank, i),
                       book |-> Splice(w.book, bookIndex)]
                 ELSE w,
                 i - 1)

\* findFuzzyMatches from loop index i on.
RECURSIVE findFuzzyMatches(_, _, _)
findFuzzyMatches(w, settings, i) ==
    IF i < 0 THEN w
    ELSE LET bankTx == At(w.bank, i)
             bestMatch == ScanBook(bankTx, w.book, settings, 0, NoBest)
         IN  findFuzzyMatches(
                 IF bestMatch.found
                 THEN [matched |-> Push(w.matched,
                                     FuzzyEntry(bankTx, At(w.book, bestMatch.index),
                                                bestMatch.confidence)),
                       bank |-> Splice(w.bank, i),
                       book |-> Splice(w.book, bestMatch.index)]
                 ELSE w,
                 settings, i - 1)

matchTransactions(bankTransactions, bookTransactions, settings) ==
    LET w0 == [bank |-> bankTransactions, book |-> bookTransactions, matched |-> <<>>]
        w1 == IF settings.autoMatchExact
              THEN findExactMatches(w0, Len(w0.bank) - 1) ELSE w0
        w2 == IF settings.fuzzyMatching
              THEN findFuzzyMatches(w1, settings, Len(w1.bank) - 1) ELSE w1
    IN  [matched |-> w2.matched, unmatchedBank |-> w2.bank, unmatchedBook |-> w2.book]

\* The contents of the MatchResults of processReconciliation(data).
processReconciliation(account, bankTransactions, bookTransactions, s) ==
    LET settings == ObjectSpread(DefaultSettings, s)
        matchResults == matchTransactions(bankTransactions, bookTransactions, settings)
    IN  [matched |-> matchResults.matched,
         unmatchedBank |-> matchResults.unmatchedBank,
         unmatchedBook |-> matchResults.unmatchedBook,
         summary |-> calculateReconciliationSummary(account, matchResults.matched,
                         matchResults.unmatchedBank, matchResults.unmatchedBook)]

(***************************************************************************)
(* State                                                                   *)
(***************************************************************************)
VARIABLES
    data,        \* the argument of processReconciliation (arrays by reference)
    heap,        \* the arrays: reference -> contents
    called,      \* the contents of the argument when the call was made
    settings,    \* const settings of processReconciliation
    remainingBankTransactions,   \* references held by matchTransactions
    remainingBookTransactions,
    matched,
    pc,          \* the position of the call
    i,           \* the loop variable of the phase that is running
    confidences, \* what calculateMatchConfidence returned in the last scan
    result,      \* the MatchResults returned
    self,        \* which call the variables above belong to
    other        \* the same variables of a second call, if one was made

vars == <<data, heap, called, settings, remainingBankTransactions,
          remainingBookTransactions, matched, pc, i, confidences, result,
          self, other>>

Undefined == [undefined |-> TRUE]

\* No second call was made.
NoCall == [self |-> 0]

\* An allocation that hands every call the same array.
ArrayOfModule(name, call) == name

\* The array a call allocates for one of its local names: its own.
ArrayOf(name, call) ==
    IF call = 1 THEN name
    ELSE CASE name = "remainingBankTransactions" -> "remainingBankTransactions (2)"
           [] name = "remainingBookTransactions" -> "remainingBookTransactions (2)"
           [] OTHER -> "matched (2)"

ArrayRefs == {"data.bankTransactions", "data.bookTransactions",
              "data (2).bankTransactions", "data (2).bookTransactions",
              "remainingBankTransactions", "remainingBookTransactions", "matched",
              "remainingBankTransactions (2)", "remainingBookTransactions (2)",
              "matched (2)"}

Account == [name |-> "Main", number |-> "1", currency |-> "USD",
            openingBalance |-> Num(0), closingBalance |-> Num(0)]

Period == [startDate |-> 0, endDate |-> 7 * MsPerDay]

\* The argument object of a call.
ReconciliationData(account, period, bankRef, bookRef, s) ==
    [account |-> account, period |-> period,
     bankTransactions |-> bankRef, bookTransactions |-> bookRef, settings |-> s]

\* The variables of a call that has just been made with argument d, whose
\* lists hold bank and book.
StartCall(call, d, bank, book) ==
    [self |-> call,
     data |-> d,
     called |-> [bankTransactions |-> bank, bookTransactions |-> book,
                 settings |-> d.settings],
     settings |-> Undefined,
     remainingBankTransactions |-> "null",
     remainingBookTransactions |-> "null",
     matched |-> "null",
     pc |-> "processReconciliation",
     i |-> -1,
     confidences |-> <<>>,
     result |-> Undefined]

\* The variables of the running call.
Running ==
    [self |-> self, data |-> data, called |-> called, settings |-> settings,
     remainingBankTransactions |-> remainingBankTransactions,
     remainingBookTransactions |-> remainingBookTransactions,
     matched |-> matched, pc |-> pc, i |-> i, confidences |-> confidences,
     result |-> result]

\* The variables hold call c.
Resume(c) ==
    /\ self = c.self
    /\ data = c.data
    /\ called = c.called
    /\ settings = c.settings
    /\ remainingBankTransactions = c.remainingBankTransactions
    /\ remainingBookTransactions = c.remainingBookTransactions
    /\ matched = c.matched
    /\ pc = c.pc
    /\ i = c.i
    /\ confidences = c.confidences
    /\ result = c.result

\* The state in which processReconciliation is called with first, and second
\* is NoCall or a second call; bank2 and book2 are the lists of the second
\* call when they are not those of the first.
InitCalls(first, bank, book, second, bank2, book2) ==
    /\ Resume(first)
    /\ other = second
    /\ heap = [r \in ArrayRefs |->
                 IF r = "data.bankTransactions" THEN bank
                 ELSE IF r = "data.bookTransactions" THEN book
                 ELSE IF r = "data (2).bankTransactions" THEN bank2
                 ELSE IF r = "data (2).bookTransactions" THEN book2
                 ELSE <<>>]

FirstData(s) ==
    ReconciliationData(Account, Period,
                       "data.bankTransactions", "data.bookTransactions", s)

\* The state in which processReconciliation is called with the two lists and
\* the settings.
InitWith(bank, book, s) ==
    InitCalls(StartCall(1, FirstData(s), bank, book), bank, book,
              NoCall, <<>>, <<>>)

\* The state in which processReconciliation is called twice with the same
\* argument object.
InitShared(bank, book, s) ==
    InitCalls(StartCall(1, FirstData(s), bank, book), bank, book,
              StartCall(2, FirstData(s), bank, book), <<>>, <<>>)

\* One call, or for the inputs of at most two transactions without settings
\* also two calls with the same argument.
InitAloneOrShared(bank, book, s) ==
    \/ InitWith(bank, book, s)
    \/ /\ Len(bank) + Len(book) <= 2
       /\ ~s.given
       /\ InitShared(bank, book, s)

(***************************************************************************)
(* Operations                                                              *)
(***************************************************************************)
\* A loop that examines the first bank transaction only.
LoopStartFirst(length) == IF length > 0 THEN 0 ELSE -1

\* for (let i = bankTransactions.length - 1; i >= 0; i--): the first index
LoopStart(length) == length - 1

\* matchTransactions after findExactMatches: the fuzzy pass if enabled and
\* its loop has an iteration to run, else the summary.
AfterExact(bankLength, s) ==
    IF s.fuzzyMatching /\ LoopStart(bankLength) >= 0
    THEN [pc |-> "findFuzzyMatches", i |-> LoopStart(bankLength)]
    ELSE [pc |-> "calculateReconciliationSummary", i |-> -1]

\* A choice of the first pass that ignores the autoMatchExact switch.
AfterCloneAlwaysExact(bankLength, s) ==
    IF LoopStart(bankLength) >= 0
    THEN [pc |-> "findExactMatches", i |-> LoopStart(bankLength)]
    ELSE AfterExact(bankLength, s)

\* matchTransactions after the clones: the exact pass if enabled and its loop
\* has an iteration to run, else what follows it.
AfterClone(bankLength, s) ==
    IF s.autoMatchExact /\ LoopStart(bankLength) >= 0
    THEN [pc |-> "findExactMatches", i |-> LoopStart(bankLength)]
    ELSE AfterExact(bankLength, s)

\* processReconciliation, lines 243-253: the settings object.
ApplyDefaults ==
    /\ pc = "processReconciliation"
    /\ settings' = ObjectSpread(DefaultSettings, data.settings)
    /\ pc' = "matchTransactions"
    /\ UNCHANGED <<data, heap, called, remainingBankTransactions,
                   remainingBookTransactions, matched, i, confidences, result,
                   self, other>>

\* matchTransactions, lines 287-297: the working copies, the empty matched
\* array and the choice of the first pass.
MatchTransactions ==
    /\ pc = "matchTransactions"
    /\ LET rbank == ArraySpread(data.bankTransactions,
                                ArrayOf("remainingBankTransactions", self))
           rbook == ArraySpread(data.bookTransactions,
                                ArrayOf("remainingBookTransactions", self))
           m == ArrayOf("matched", self)
           h1 == [heap EXCEPT ![rbank] = heap[data.bankTransactions]]
           h2 == [h1 EXCEPT ![rbook] = h1[data.bookTransactions]]
           h3 == [h2 EXCEPT ![m] = <<>>]
           next == AfterClone(Len(h3[rbank]), settings)
       IN  /\ remainingBankTransactions' = rbank
           /\ remainingBookTransactions' = rbook
           /\ matched' = m
           /\ heap' = h3
           /\ pc' = next.pc
           /\ i' = next.i
    /\ UNCHANGED <<data, called, settings, confidences, result, self, other>>

\* One iteration of the for loop of findExactMatches (lines 325-349) and,
\* after the last one, the return to matchTransactions.
ExactIteration ==
    /\ pc = "findExactMatches"
    /\ i >= 0
    /\ LET bankTransactions == remainingBankTransactions
           bookTransactions == remainingBookTransactions
           bankTx == At(heap[bankTransactions], i)
           bookIndex == FindIndex(heap[bookTransactions], bankTx)
           h1 == [heap EXCEPT ![matched] =
                    Push(@, ExactEntry(bankTx, At(heap[bookTransactions], bookIndex)))]
           h2 == [h1 EXCEPT ![bankTransactions] = Splice(@, i)]
           h3 == [h2 EXCEPT ![bookTransactions] = Splice(@, bookIndex)]
           h == IF bookIndex # -1 THEN h3 ELSE heap
           next == AfterExact(Len(h[bankTransactions]), settings)
       IN  /\ heap' = h
           /\ IF i - 1 >= 0
              THEN pc' = pc /\ i' = i - 1
              ELSE pc' = next.pc /\ i' = next.i
    /\ UNCHANGED <<data, called, settings, remainingBankTransactions,
                   remainingBookTransactions, matched, confidences, result,
                   self, other>>

\* One iteration of the outer for loop of findFuzzyMatches (lines 366-395)
\* and, after the last one, the return to matchTransactions.
FuzzyIteration ==
    /\ pc = "findFuzzyMatches"
    /\ i >= 0
    /\ \E bestMatch \in {ScanBook(At(heap[remainingBankTransactions], i),
                                  heap[remainingBookTransactions], settings, 0, NoBest)} :
       LET bankTransactions == remainingBankTransactions
           bookTransactions == remainingBookTransactions
           bankTx == At(heap[bankTransactions], i)
           h1 == [heap EXCEPT ![matched] =
                    Push(@, FuzzyEntry(bankTx,
                                         At(heap[bookTransactions], bestMatch.index),
                                         bestMatch.confidence))]
           h2 == [h1 EXCEPT ![bankTransactions] = Splice(@, i)]
           h3 == [h2 EXCEPT ![bookTransactions] = Splice(@, bestMatch.index)]
       IN  /\ heap' = IF bestMatch.found THEN h3 ELSE heap
           /\ confidences' = Confidences(bankTx, heap[bookTransactions], settings)
           /\ IF i - 1 >= 0
              THEN pc' = pc /\ i' = i - 1
              ELSE pc' = "calculateReconciliationSummary" /\ i' = -1
    /\ UNCHANGED <<data, called, settings, remainingBankTransactions,
                   remainingBookTransactions, matched, result, self, other>>

\* processReconciliation, lines 259-271: the summary and the return value.
Summarize ==
    /\ pc = "calculateReconciliationSummary"
    /\ result' = [matched |-> matched,
                  unmatchedBank |-> remainingBankTransactions,
                  unmatchedBook |-> remainingBookTransactions,
                  summary |-> calculateReconciliationSummary(data.account,
                                  heap[matched],
                                  heap[remainingBankTransactions],
                                  heap[remainingBookTransactions])]
    /\ pc' = "done"
    /\ UNCHANGED <<data, heap, called, settings, remainingBankTransactions,
                   remainingBookTransactions, matched, i, confidences,
                   self, other>>

\* The other call takes its next steps: the variables of the running call are
\* set aside and those of the other call restored.  The arrays stay what they
\* are.
Switch ==
    /\ other # NoCall
    /\ other' = Running
    /\ self' = other.self
    /\ data' = other.data
    /\ called' = other.called
    /\ settings' = other.settings
    /\ remainingBankTransactions' = other.remainingBankTransactions
    /\ remainingBookTransactions' = other.remainingBookTransactions
    /\ matched' = other.matched
    /\ pc' = other.pc
    /\ i' = other.i
    /\ confidences' = other.confidences
    /\ result' = other.result
    /\ UNCHANGED heap

Next ==
    \/ ApplyDefaults
    \/ MatchTransactions
    \/ ExactIteration
    \/ FuzzyIteration
    \/ Summarize
    \/ Switch

(***************************************************************************)
(* Inputs                                                                  *)
(***************************************************************************)
MaxBank == 2

MaxBook == 2

Day(n) == n * MsPerDay

\* "Rent"
StrRent == <<82, 101, 110, 116>>

\* "rent paid"
StrRentPaid == <<114, 101, 110, 116, 32, 112, 97, 105, 100>>

\* "r1"
StrR1 == <<114, 49>>

Amounts == {Num(100), Num(40)}

Dates == {Day(0), Day(1)}

\* What the caller chooses freely of a bank transaction and of a book
\* transaction: the amount and the date.  The descriptions differ in case and
\* one contains the other; the references are equal.
BankFields == [amount : Amounts, date : Dates,
               description : {StrRent}, reference : {Reference(StrR1)}]

BookFields == [amount : Amounts, date : Dates,
               description : {StrRentPaid}, reference : {Reference(StrR1)}]

BankIds == <<"b1", "b2", "b3">>

BookIds == <<"k1", "k2", "k3">>

\* A transaction's optional category and metadata: absent, or a value.
NoCategory == [present |-> FALSE, value |-> <<>>]

Category(c) == [present |-> TRUE, value |-> c]

NoMetadata == [present |-> FALSE, value |-> <<>>]

Metadata(m) == [present |-> TRUE, value |-> m]

Transaction(id, type, f) ==
    [id |-> id, type |-> type, date |-> f.date, description |-> f.description,
     amount |-> f.amount, reference |-> f.reference,
     category |-> NoCategory, metadata |-> NoMetadata]

\* The lists of at most max transactions over the fields F, the k-th with
\* identifier ids[k]: identifiers are unique within a list.
Lists(F, ids, type, max) ==
    UNION {{[k \in 1..n |-> Transaction(ids[k], type, fs[k])] : fs \in [1..n -> F]}
           : n \in 0..max}

\* data.settings absent
NoSettings ==
    [given |-> FALSE, fuzzyMatching |-> {}, fuzzyThreshold |-> {},
     matchByAmount |-> {}, matchByDescription |-> {}, matchByReference |-> {},
     matchByDate |-> {}, dateTolerance |-> {}, autoMatchExact |-> {}]

\* data.settings = {}
EmptySettings == [NoSettings EXCEPT !.given = TRUE]

AllFactorsOff ==
    [EmptySettings EXCEPT !.matchByAmount = {FALSE}, !.matchByDate = {FALSE},
                          !.matchByDescription = {FALSE}, !.matchByReference = {FALSE}]

SettingsInputs ==
    {NoSettings,
     EmptySettings,
     [EmptySettings EXCEPT !.fuzzyThreshold = {Rat(1, 2)}],
     [EmptySettings EXCEPT !.fuzzyThreshold = {Num(1)}, !.autoMatchExact = {FALSE}],
     [EmptySettings EXCEPT !.fuzzyThreshold = {Rat(1, 2)}, !.autoMatchExact = {FALSE}],
     [EmptySettings EXCEPT !.dateTolerance = {Num(0)}],
     [EmptySettings EXCEPT !.dateTolerance = {Num(1)}],
     [EmptySettings EXCEPT !.autoMatchExact = {FALSE}],
     [EmptySettings EXCEPT !.fuzzyMatching = {FALSE}],
     [EmptySettings EXCEPT !.autoMatchExact = {FALSE}, !.fuzzyMatching = {FALSE}],
     [EmptySettings EXCEPT !.matchByAmount = {FALSE}],
     [EmptySettings EXCEPT !.matchByDate = {FALSE}],
     [EmptySettings EXCEPT !.matchByDescription = {FALSE}],
     [EmptySettings EXCEPT !.matchByReference = {FALSE}],
     AllFactorsOff,
     [AllFactorsOff EXCEPT !.fuzzyThreshold = {Num(0)}]}

\* processReconciliation called with any two lists of at most MaxBank and
\* MaxBook transactions and any of the settings above.
Init ==
    \E bank \in Lists(BankFields, BankIds, "debit", MaxBank),
       book \in Lists(BookFields, BookIds, "credit", MaxBook),
       s \in SettingsInputs :
        InitAloneOrShared(bank, book, s)

Spec == Init /\ [][Next]_vars

(***************************************************************************)
(* Inputs that vary the settings: every object the caller can pass as      *)
(* data.settings over the values below, with one bank transaction and one  *)
(* book transaction that agree exactly or differ by a day.                 *)
(***************************************************************************)
OptionalBoolean == {{}, {TRUE}, {FALSE}}

OptionalThreshold == {{}, {Rat(1, 2)}, {Rat(9, 10)}}

OptionalTolerance == {{}, {Num(0)}, {Num(1)}}

SettingsObjects ==
    [given : {TRUE},
     fuzzyMatching : OptionalBoolean,
     fuzzyThreshold : OptionalThreshold,
     matchByAmount : OptionalBoolean,
     matchByDescription : OptionalBoolean,
     matchByReference : OptionalBoolean,
     matchByDate : OptionalBoolean,
     dateTolerance : OptionalTolerance,
     autoMatchExact : OptionalBoolean]

OneBank ==
    {<<Transaction("b1", "debit",
         [amount |-> Num(100), date |-> Day(0),
          description |-> StrRent, reference |-> Reference(StrR1)])>>}

OneBook ==
    {<<Transaction("k1", "credit",
         [amount |-> Num(100), date |-> d,
          description |-> StrRentPaid, reference |-> Reference(StrR1)])>> : d \in Dates}

InitSettings ==
    \E bank \in OneBank, book \in OneBook, s \in SettingsObjects \cup {NoSettings} :
        InitAloneOrShared(bank, book, s)

SpecSettings == InitSettings /\ [][Next]_vars

(***************************************************************************)
(* Inputs that vary the amounts around the balance tolerance of 0.01: bank *)
(* amounts 0.01, 1/128 and 0.03, book amounts 0, 1/128, 1/64 and 0.02, one *)
(* date.  0.01 - 0 is 0.01, and 0.03 - 0.02 is the double just below it,   *)
(* 0.009999999999999998.                                                   *)
(***************************************************************************)
InitAmounts ==
    \E bank \in Lists([amount : {Rat(1, 100), Rat(1, 128), Rat(3, 100)},
                       date : {Day(0)},
                       description : {StrRent}, reference : {Reference(StrR1)}],
                 BankIds, "debit", MaxBank),
       book \in Lists([amount : {Num(0), Rat(1, 128), Rat(1, 64), Rat(2, 100)},
                       date : {Day(0)},
                       description : {StrRentPaid}, reference : {Reference(StrR1)}],
                 BookIds, "credit", MaxBook),
       s \in {NoSettings,
              [EmptySettings EXCEPT !.fuzzyThreshold = {Rat(1, 2)}],
              [EmptySettings EXCEPT !.fuzzyMatching = {FALSE}],
              [EmptySettings EXCEPT !.autoMatchExact = {FALSE}, !.fuzzyMatching = {FALSE}],
              [EmptySettings EXCEPT !.matchByAmount = {FALSE}]} :
        InitAloneOrShared(bank, book, s)

SpecAmounts == InitAmounts /\ [][Next]_vars

(***************************************************************************)
(* Inputs that vary the reference (absent or "r1") and put the book date   *)
(* on the bank date or exactly three days from it.                         *)
(***************************************************************************)
InitScenario ==
    \E bank \in Lists([amount : {Num(100)}, date : {Day(0)},
                       description : {StrRent},
                       reference : {NoReference, Reference(StrR1)}],
                 BankIds, "debit", MaxBank),
       book \in Lists([amount : Amounts, date : {Day(0), Day(3)},
                       description : {StrRentPaid},
                       reference : {NoReference, Reference(StrR1)}],
                 BookIds, "credit", MaxBook),
       s \in {NoSettings,
              [EmptySettings EXCEPT !.fuzzyThreshold = {Rat(1, 2)}],
              [EmptySettings EXCEPT !.fuzzyMatching = {FALSE}]} :
        InitAloneOrShared(bank, book, s)

SpecScenario == InitScenario /\ [][Next]_vars

(***************************************************************************)
(* Two calls with the same argument object, their steps in any order.      *)
(***************************************************************************)
CallsBankFields == [amount : Amounts, date : {Day(0)},
                    description : {StrRent}, reference : {Reference(StrR1)}]

CallsBookFields == [amount : Amounts, date : {Day(0)},
                    description : {StrRentPaid}, reference : {Reference(StrR1)}]

CallsSettingsInputs ==
    {NoSettings, [EmptySettings EXCEPT !.fuzzyThreshold = {Rat(1, 2)}]}

InitTwoCalls ==
    \E bank \in Lists(CallsBankFields, BankIds, "debit", MaxBank),
       book \in Lists(CallsBookFields, BookIds, "credit", MaxBook),
       s \in CallsSettingsInputs :
        InitShared(bank, book, s)

SpecCalls == InitTwoCalls /\ [][Next]_vars

(***************************************************************************)
(* Two calls whose arguments differ only in fields the matching does not   *)
(* read: the transactions' type, category, id and metadata, the account    *)
(* and the period.                                                         *)
(***************************************************************************)
OtherBankIds == <<"x1", "x2", "x3">>

OtherBookIds == <<"y1", "y2", "y3">>

OtherAccount == [name |-> "Savings", number |-> "2", currency |-> "EUR",
                 openingBalance |-> Num(40), closingBalance |-> Num(100)]

OtherPeriod == [startDate |-> Day(1), endDate |-> Day(3)]

Unvaried ==
    [bankType |-> "debit", bookType |-> "credit", bankIds |-> BankIds,
     bookIds |-> BookIds, category |-> NoCategory, metadata |-> NoMetadata,
     account |-> Account, period |-> Period]

\* What the second argument changes: one field, or all of them.
Variations ==
    {[Unvaried EXCEPT !.bankType = "credit"],
     [Unvaried EXCEPT !.bookType = "debit"],
     [Unvaried EXCEPT !.bankIds = OtherBankIds, !.bookIds = OtherBookIds],
     [Unvaried EXCEPT !.category = Category(StrRent)],
     [Unvaried EXCEPT !.metadata = Metadata(StrR1)],
     [Unvaried EXCEPT !.account = OtherAccount],
     [Unvaried EXCEPT !.period = OtherPeriod],
     [bankType |-> "credit", bookType |-> "debit", bankIds |-> OtherBankIds,
      bookIds |-> OtherBookIds, category |-> Category(StrRent),
      metadata |-> Metadata(StrR1), account |-> OtherAccount,
      period |-> OtherPeriod]}

Vary(list, type, ids, v) ==
    [k \in 1..Len(list) |->
        [list[k] EXCEPT !.type = type, !.id = ids[k],
                        !.category = v.category, !.metadata = v.metadata]]

InitInformational ==
    \E bank \in Lists(CallsBankFields, BankIds, "debit", MaxBank),
       book \in Lists(CallsBookFields, BookIds, "credit", MaxBook),
       s \in CallsSettingsInputs,
       v \in Variations :
        LET bank2 == Vary(bank, v.bankType, v.bankIds, v)
            book2 == Vary(book, v.bookType, v.bookIds, v)
            data2 == ReconciliationData(v.account, v.period,
                        "data (2).bankTransactions", "data (2).bookTransactions", s)
        IN  InitCalls(StartCall(1, FirstData(s), bank, book), bank, book,
                      StartCall(2, data2, bank2, book2), bank2, book2)

SpecInformational == InitInformational /\ [][Next]_vars

(***************************************************************************)
(* What the claims read                                                    *)
(***************************************************************************)
Done == pc = "done"

\* The three arrays of the returned MatchResults.
ResultMatched == heap[result.matched]

ResultUnmatchedBank == heap[result.unmatchedBank]

ResultUnmatchedBook == heap[result.unmatchedBook]

\* The number of indices of seq whose element satisfies Test.
Count(seq, Test(_)) == Cardinality({k \in 1..Len(seq) : Test(seq[k])})

\* How often transaction tx is the bank side, or the book side, of a pair.
AsBank(pairs, tx) == LET T(e) == e.bankTransaction = tx IN Count(pairs, T)

AsBook(pairs, tx) == LET T(e) == e.bookTransaction = tx IN Count(pairs, T)

Occurs(list, tx) == LET T(e) == e = tx IN Count(list, T)

InputBank == called.bankTransactions

InputBook == called.bookTransactions

\* C1. Partition: when the call has returned, every input bank transaction is
\* exactly once in (bank sides of matched) + unmatchedBank, every input book
\* transaction exactly once in (book sides of matched) + unmatchedBook, and
\* the output holds nothing else.
C1_Partition ==
    Done =>
        /\ \A k \in 1..Len(InputBank) :
              AsBank(ResultMatched, InputBank[k])
                + Occurs(ResultUnmatchedBank, InputBank[k]) = 1
        /\ \A k \in 1..Len(InputBook) :
              AsBook(ResultMatched, InputBook[k])
                + Occurs(ResultUnmatchedBook, InputBook[k]) = 1
        /\ Len(ResultMatched) + Len(ResultUnmatchedBank) = Len(InputBank)
        /\ Len(ResultMatched) + Len(ResultUnmatchedBook) = Len(InputBook)

\* A run that ended with a pair and with a transaction left on each side.
C1_Witness ==
    /\ Done
    /\ Len(ResultMatched) >= 1
    /\ Len(ResultUnmatchedBank) >= 1
    /\ Len(ResultUnmatchedBook) >= 1

\* C2. One-to-one: at every point of the run no bank transaction is the bank
\* side of two pairs of matched and no book transaction the book side of two.
C2_OneToOne ==
    matched # "null" =>
        \A m, n \in 1..Len(heap[matched]) :
            m # n =>
                /\ heap[matched][m].bankTransaction # heap[matched][n].bankTransaction
                /\ heap[matched][m].bookTransaction # heap[matched][n].bookTransaction

\* A run in which two bank transactions with the same fields and two book
\* transactions with the same fields, all four agreeing exactly, were paired.
C2_Witness ==
    /\ Done
    /\ Len(ResultMatched) = 2
    /\ Len(InputBank) = 2 /\ Len(InputBook) = 2
    /\ \A k \in 1..2 : InputBook[k].amount = InputBank[1].amount
                         /\ InputBook[k].date = InputBank[1].date
    /\ InputBank[2].amount = InputBank[1].amount
    /\ InputBank[2].date = InputBank[1].date

\* Whether book transaction k and bank transaction b have identical amount,
\* date timestamp and reference (both absent included).
Agree(k, b) == k.amount = b.amount /\ k.date = b.date /\ k.reference = b.reference

\* Whether pair e of matched joins b and k as an exact match of confidence 1.
ExactPairOf(e, b, k) ==
    /\ e.bankTransaction = b
    /\ e.bookTransaction = k
    /\ e.matchMethod = "exact"
    /\ e.confidence = Num(1)

\* Whether tx is one side of an exact pair of confidence 1 whose two sides
\* agree exactly.
InExactPair(pairs, tx) ==
    \E n \in 1..Len(pairs) :
        /\ pairs[n].bankTransaction = tx \/ pairs[n].bookTransaction = tx
        /\ pairs[n].matchMethod = "exact"
        /\ pairs[n].confidence = Num(1)
        /\ Agree(pairs[n].bookTransaction, pairs[n].bankTransaction)

\* Whether b agrees with no book transaction but k, and k with no bank
\* transaction but b.
OnlyCounterparts(b, k) ==
    /\ \A n \in 1..Len(InputBook) :
          Agree(InputBook[n], b) => InputBook[n] = k
    /\ \A n \in 1..Len(InputBank) :
          Agree(k, InputBank[n]) => InputBank[n] = b

\* C3 as stated. Exact-match priority for every input: every bank and book
\* transaction with identical amount, date and reference are matched with
\* each other, with method exact and confidence 1.
C3_EveryAgreeingPairMatched ==
    Done =>
        \A m \in 1..Len(InputBank), n \in 1..Len(InputBook) :
            Agree(InputBook[n], InputBank[m]) =>
                \E e \in 1..Len(ResultMatched) :
                    ExactPairOf(ResultMatched[e], InputBank[m], InputBook[n])

\* C3 as amended. With autoMatchExact enabled, of a bank and a book
\* transaction with identical amount, date and reference at least one is
\* matched in phase 1 (method exact, confidence 1, with a counterpart that
\* agrees with it), and both are matched with each other when neither agrees
\* with any other transaction of the opposite list; fuzzyMatching does not
\* matter.
C3_ExactPriority ==
    (Done /\ settings.autoMatchExact) =>
        \A m \in 1..Len(InputBank), n \in 1..Len(InputBook) :
            Agree(InputBook[n], InputBank[m]) =>
                /\ InExactPair(ResultMatched, InputBank[m])
                     \/ InExactPair(ResultMatched, InputBook[n])
                /\ OnlyCounterparts(InputBank[m], InputBook[n]) =>
                      \E e \in 1..Len(ResultMatched) :
                          ExactPairOf(ResultMatched[e], InputBank[m], InputBook[n])

\* A run with both phases enabled and two transactions on each side in which
\* a bank and a book transaction that agree only with each other were paired
\* as an exact match.
C3_Witness ==
    /\ Done
    /\ settings.autoMatchExact /\ settings.fuzzyMatching
    /\ Len(InputBank) = 2 /\ Len(InputBook) = 2
    /\ \E m \in 1..2, n \in 1..2 :
          /\ Agree(InputBook[n], InputBank[m])
          /\ OnlyCounterparts(InputBank[m], InputBook[n])
          /\ \E e \in 1..Len(ResultMatched) :
                ExactPairOf(ResultMatched[e], InputBank[m], InputBook[n])

\* C4. Threshold respect: at every point of the run every entry of matched is
\* an exact match of confidence 1 or a fuzzy match whose confidence c has
\* fuzzyThreshold <= c <= 1; no entry has method manual.
C4_ThresholdRespect ==
    matched # "null" =>
        \A n \in 1..Len(heap[matched]) :
            LET e == heap[matched][n]
            IN  \/ e.matchMethod = "exact" /\ e.confidence = Num(1)
                \/ /\ e.matchMethod = "fuzzy"
                   /\ NumGE(e.confidence, settings.fuzzyThreshold)
                   /\ NumLE(e.confidence, Num(1))

\* A run in which the fuzzy pass accepted one candidate, with a confidence
\* strictly between the threshold and 1, and rejected another, whose
\* confidence was below the threshold.
C4_Witness ==
    /\ Done
    /\ \E n \in 1..Len(ResultMatched) :
          /\ ResultMatched[n].matchMethod = "fuzzy"
          /\ NumGT(ResultMatched[n].confidence, settings.fuzzyThreshold)
          /\ NumLT(ResultMatched[n].confidence, Num(1))
    /\ \E m \in 1..Len(ResultUnmatchedBank), n \in 1..Len(ResultUnmatchedBook) :
          LET c == calculateMatchConfidence(ResultUnmatchedBank[m],
                                            ResultUnmatchedBook[n], settings)
          IN  NumGT(c, Num(0)) /\ NumLT(c, settings.fuzzyThreshold)

\* C5. Every value calculateMatchConfidence returns is a number in [0, 1].
C5_ConfidenceInUnitInterval ==
    \A k \in 1..Len(confidences) :
        NumGE(confidences[k], Num(0)) /\ NumLE(confidences[k], Num(1))

\* What an option is worth after the defaulting: the caller's value when
\* data.settings is given and has the field, else the documented default.
Effective(field, default) ==
    IF called.settings.given /\ field # {} THEN CHOOSE v \in field : TRUE ELSE default

\* C6. Settings defaulting: once processReconciliation has built its settings,
\* each of the eight options holds the caller's value when data.settings
\* supplies it and otherwise its default (true, 0.7, true, true, true, true,
\* 3, true), independently of the other seven.
C6_SettingsDefaulting ==
    pc # "processReconciliation" =>
        /\ settings.fuzzyMatching = Effective(called.settings.fuzzyMatching, TRUE)
        /\ settings.fuzzyThreshold = Effective(called.settings.fuzzyThreshold, Rat(7, 10))
        /\ settings.matchByAmount = Effective(called.settings.matchByAmount, TRUE)
        /\ settings.matchByDescription
             = Effective(called.settings.matchByDescription, TRUE)
        /\ settings.matchByReference = Effective(called.settings.matchByReference, TRUE)
        /\ settings.matchByDate = Effective(called.settings.matchByDate, TRUE)
        /\ settings.dateTolerance = Effective(called.settings.dateTolerance, Num(3))
        /\ settings.autoMatchExact = Effective(called.settings.autoMatchExact, TRUE)
        /\ DOMAIN settings = {"fuzzyMatching", "fuzzyThreshold", "matchByAmount",
                              "matchByDescription", "matchByReference", "matchByDate",
                              "dateTolerance", "autoMatchExact"}

\* A call whose settings object holds dateTolerance 0 and nothing else, after
\* the defaulting: dateTolerance is 0 and the other seven are the defaults.
C6_Witness ==
    /\ pc # "processReconciliation"
    /\ called.settings = [EmptySettings EXCEPT !.dateTolerance = {Num(0)}]
    /\ settings.dateTolerance = Num(0)
    /\ settings.fuzzyThreshold = Rat(7, 10)
    /\ settings.fuzzyMatching /\ settings.autoMatchExact /\ settings.matchByAmount
    /\ settings.matchByDate /\ settings.matchByDescription /\ settings.matchByReference

\* C7. No mutation of the input: at every point of the run the caller's two
\* arrays hold the transactions they held at the call, in the same order,
\* data.settings is what it was, every transaction of the output is an input
\* record with all its fields, and the returned arrays are not the caller's.
C7_InputNotMutated ==
    /\ heap[data.bankTransactions] = called.bankTransactions
    /\ heap[data.bookTransactions] = called.bookTransactions
    /\ data.settings = called.settings
    /\ Done =>
          /\ \A n \in 1..Len(ResultMatched) :
                /\ Occurs(InputBank, ResultMatched[n].bankTransaction) = 1
                /\ Occurs(InputBook, ResultMatched[n].bookTransaction) = 1
          /\ \A n \in 1..Len(ResultUnmatchedBank) :
                Occurs(InputBank, ResultUnmatchedBank[n]) = 1
          /\ \A n \in 1..Len(ResultUnmatchedBook) :
                Occurs(InputBook, ResultUnmatchedBook[n]) = 1
          /\ {result.matched, result.unmatchedBank, result.unmatchedBook}
                \cap {data.bankTransactions, data.bookTransactions} = {}

\* A finished run that removed a pair from the working lists and left a
\* transaction in each, with two transactions in each of the caller's lists.
C7_Witness ==
    /\ Done
    /\ Len(InputBank) = 2 /\ Len(InputBook) = 2
    /\ Len(ResultMatched) = 1
    /\ Len(ResultUnmatchedBank) = 1 /\ Len(ResultUnmatchedBook) = 1
    /\ Len(heap[data.bankTransactions]) = 2 /\ Len(heap[data.bookTransactions]) = 2


\* The sum of the amounts of the elements of list whose index is in I, added
\* one after the other from the lowest index to the highest.
RECURSIVE SumOfIndices(_, _)
SumOfIndices(list, I) ==
    IF I = {} THEN Num(0)
    ELSE LET k == CHOOSE n \in I : \A j \in I : j <= n
         IN  NumAdd(SumOfIndices(list, I \ {k}), list[k].amount)

\* The bank sides of the pairs, in the order of the pairs.
BankSides(pairs) == [n \in 1..Len(pairs) |-> pairs[n].bankTransaction]

\* Two numbers that differ by less than a billionth: the same real number up
\* to the rounding of the operations that computed them.
Billionth == Rat(1, 1000000000)

Near(x, y) == NumLT(MathAbs(NumSub(x, y)), Billionth)

\* The same value, NaN included, or the same real number up to rounding.
Same(x, y) == x = y \/ Near(x, y)

\* x <= y up to rounding
AtMost(x, y) == NumLE(x, y) \/ Near(x, y)

Indices(list) == 1..Len(list)

\* C8. Summary amounts: matchedAmount is the sum of the bank-side amounts of
\* the pairs, which are the amounts of the input bank transactions that are
\* the bank side of a pair; unmatchedBankAmount and unmatchedBookAmount are
\* the sums of the amounts of the input transactions left in the unmatched
\* lists; and discrepancy is unmatchedBankAmount - unmatchedBookAmount (100
\* and 40 give 60).
C8_SummaryAmounts ==
    Done =>
        LET sm == result.summary
        IN  /\ sm.matchedAmount =
                 SumOfIndices(BankSides(ResultMatched), Indices(ResultMatched))
            /\ Near(sm.matchedAmount,
                    SumOfIndices(InputBank,
                       {k \in Indices(InputBank) :
                           AsBank(ResultMatched, InputBank[k]) >= 1}))
            /\ sm.unmatchedBankAmount =
                 SumOfIndices(InputBank,
                    {k \in Indices(InputBank) :
                        Occurs(ResultUnmatchedBank, InputBank[k]) >= 1})
            /\ sm.unmatchedBookAmount =
                 SumOfIndices(InputBook,
                    {k \in Indices(InputBook) :
                        Occurs(ResultUnmatchedBook, InputBook[k]) >= 1})
            /\ sm.discrepancy = NumSub(sm.unmatchedBankAmount, sm.unmatchedBookAmount)
            /\ Near(NumAdd(sm.discrepancy, sm.unmatchedBookAmount),
                    sm.unmatchedBankAmount)
            /\ (sm.unmatchedBankAmount = Num(100) /\ sm.unmatchedBookAmount = Num(40))
                  => sm.discrepancy = Num(60)

\* A finished run with a pair whose two amounts differ (bank 100, book 40),
\* 100 left unmatched on the bank side and 40 on the book side.
C8_Witness ==
    /\ Done
    /\ \E n \in 1..Len(ResultMatched) :
          /\ ResultMatched[n].bankTransaction.amount = Num(100)
          /\ ResultMatched[n].bookTransaction.amount = Num(40)
    /\ result.summary.matchedAmount = Num(100)
    /\ result.summary.unmatchedBankAmount = Num(100)
    /\ result.summary.unmatchedBookAmount = Num(40)
    /\ result.summary.discrepancy = Num(60)

\* The difference of the sums of the two unmatched lists of the result.
UnmatchedDifference ==
    NumSub(SumOfIndices(ResultUnmatchedBank, Indices(ResultUnmatchedBank)),
           SumOfIndices(ResultUnmatchedBook, Indices(ResultUnmatchedBook)))

\* C9. Summary status: status is balanced when the difference d of the two
\* unmatched sums has |d| < 0.01 and unbalanced otherwise, whatever else the
\* run produced; |d| = 0.01 is unbalanced.
C9_SummaryStatus ==
    Done =>
        LET d == UnmatchedDifference
        IN  /\ result.summary.discrepancy = d
            /\ result.summary.status \in {"balanced", "unbalanced"}
            /\ result.summary.status = "balanced" <=> NumLT(MathAbs(d), Rat(1, 100))
            /\ d \in {Rat(1, 100), Rat(-1, 100)} => result.summary.status = "unbalanced"

\* A finished run with transactions left on both sides whose sums differ by
\* exactly 0.01, reported unbalanced.
C9_Witness ==
    /\ Done
    /\ Len(ResultUnmatchedBank) >= 1 /\ Len(ResultUnmatchedBook) >= 1
    /\ UnmatchedDifference = Rat(1, 100)
    /\ result.summary.status = "unbalanced"

\* C10. Match percentage: with m pairs, u unmatched bank and v unmatched book
\* transactions, matchPercentage is 100 m / (m + u + v), a pair counting once
\* (m + u + v = bank inputs + book inputs - m); it is 100 when m + u + v = 0
\* and always in [0, 100].
C10_MatchPercentage ==
    Done =>
        LET m == Len(ResultMatched)
            total == Len(InputBank) + Len(InputBook) - m
            p == result.summary.matchPercentage
        IN  /\ total = m + Len(ResultUnmatchedBank) + Len(ResultUnmatchedBook)
            /\ total = 0 => p = Num(100)
            /\ total > 0 => Near(p, Rat(100 * m, total))
            /\ NumLE(Num(0), p) /\ NumLE(p, Num(100))

\* A finished run with one pair and one transaction left on each side: one
\* of three, 100/3 per cent (33.33333333333333, the double below 100/3).
C10_Witness ==
    /\ Done
    /\ Len(ResultMatched) = 1
    /\ Len(ResultUnmatchedBank) = 1 /\ Len(ResultUnmatchedBook) = 1
    /\ Near(result.summary.matchPercentage, Rat(100, 3))
    /\ NumLT(result.summary.matchPercentage, Rat(100, 3))


\* The running call can take its next step: it is at a position of the
\* code, and in a loop its index is an index of the working bank list.
CanStep ==
    \/ pc \in {"processReconciliation", "matchTransactions",
               "calculateReconciliationSummary"}
    \/ /\ pc \in {"findExactMatches", "findFuzzyMatches"}
       /\ 0 <= i /\ i < Len(heap[remainingBankTransactions])

\* C11. Totality on degenerate input: a call that has not returned can always
\* take its next step; with both lists empty it returns no pair, two empty
\* unmatched lists, status balanced and matchPercentage 100; with exactly one
\* list empty it returns no pair and the other list entirely unmatched.
C11_DegenerateInput ==
    /\ ~Done => CanStep
    /\ (Done /\ InputBank = <<>> /\ InputBook = <<>>) =>
          /\ ResultMatched = <<>>
          /\ ResultUnmatchedBank = <<>>
          /\ ResultUnmatchedBook = <<>>
          /\ result.summary.status = "balanced"
          /\ result.summary.matchPercentage = Num(100)
    /\ (Done /\ (InputBank = <<>> \/ InputBook = <<>>)) =>
          /\ ResultMatched = <<>>
          /\ ResultUnmatchedBank = InputBank
          /\ ResultUnmatchedBook = InputBook

\* A call with two empty lists has returned empty lists, balanced, 100.
C11_Witness ==
    /\ Done
    /\ InputBank = <<>> /\ InputBook = <<>>
    /\ ResultMatched = <<>>
    /\ ResultUnmatchedBank = <<>> /\ ResultUnmatchedBook = <<>>
    /\ result.summary.status = "balanced"
    /\ result.summary.matchPercentage = Num(100)

\* The caller passed no settings, so the defaults apply.
DefaultRun == called.settings = NoSettings

\* Equal amounts, dates exactly three days apart, the bank description
\* ("Rent") contained in the book description ("rent paid") up to case, and
\* a reference on exactly one side.
Boundary(b, k) ==
    /\ b.amount = k.amount
    /\ Abs(b.date - k.date) = 3 * 86400000
    /\ b.description = StrRent
    /\ k.description = StrRentPaid
    /\ b.reference.present # k.reference.present

\* C12. Threshold boundary scenario: under default settings a boundary pair
\* (equal amounts, three days apart, contained description, one reference
\* missing) has confidence (0.4 + 0 + 0.16)/0.9 = 28/45 < 0.7; the two are not
\* paired with each other in any phase, and when they are the whole input
\* both end in the unmatched lists.
C12_ThresholdBoundary ==
    DefaultRun =>
        \A m \in 1..Len(InputBank), n \in 1..Len(InputBook) :
            Boundary(InputBank[m], InputBook[n]) =>
                /\ Near(calculateMatchConfidence(InputBank[m], InputBook[n],
                                                 DefaultSettings), Rat(28, 45))
                /\ NumLT(calculateMatchConfidence(InputBank[m], InputBook[n],
                                                  DefaultSettings), Rat(7, 10))
                /\ pc \notin {"processReconciliation", "matchTransactions"} =>
                      \A e \in 1..Len(heap[matched]) :
                          ~(/\ heap[matched][e].bankTransaction = InputBank[m]
                            /\ heap[matched][e].bookTransaction = InputBook[n])
                /\ (Len(InputBank) = 1 /\ Len(InputBook) = 1) =>
                      /\ pc \in {"calculateReconciliationSummary", "done"} =>
                            /\ Len(confidences) = 1
                            /\ Near(confidences[1], Rat(28, 45))
                      /\ Done =>
                            /\ ResultMatched = <<>>
                            /\ ResultUnmatchedBank = InputBank
                            /\ ResultUnmatchedBook = InputBook

\* A default run on one boundary pair has returned: the scan computed 28/45
\* and both transactions are unmatched.
C12_Witness ==
    /\ Done /\ DefaultRun
    /\ Len(InputBank) = 1 /\ Len(InputBook) = 1
    /\ Boundary(InputBank[1], InputBook[1])
    /\ Len(confidences) = 1 /\ Near(confidences[1], Rat(28, 45))
    /\ ResultMatched = <<>>
    /\ ResultUnmatchedBank = InputBank /\ ResultUnmatchedBook = InputBook


\* The contents of the MatchResults call c returned.
Returned(c) ==
    [matched |-> heap[c.result.matched],
     unmatchedBank |-> heap[c.result.unmatchedBank],
     unmatchedBook |-> heap[c.result.unmatchedBook],
     summary |-> c.result.summary]

\* What a call made alone with the argument of call c returns.
Isolated(c) ==
    processReconciliation(c.data.account, c.called.bankTransactions,
                          c.called.bookTransactions, c.called.settings)

\* C13. Independence of calls: of two calls with the same argument object,
\* their steps in any order, each returns what a call made alone returns, in
\* arrays of its own, and the two summaries are identical.
C13_IndependentCalls ==
    /\ Done => Returned(Running) = Isolated(Running)
    /\ (other # NoCall /\ other.pc = "done") => Returned(other) = Isolated(other)
    /\ (other # NoCall /\ Done /\ other.pc = "done") =>
          /\ Returned(Running) = Returned(other)
          /\ result.summary = other.result.summary
          /\ {result.matched, result.unmatchedBank, result.unmatchedBook}
                \cap {other.result.matched, other.result.unmatchedBank,
                      other.result.unmatchedBook} = {}

\* Two calls with the same argument have both returned two pairs, one of them
\* a fuzzy match, each in its own arrays.
C13_Witness ==
    /\ Done /\ other # NoCall /\ other.pc = "done"
    /\ other.data = data
    /\ Len(ResultMatched) = 2
    /\ \E e \in 1..2 : ResultMatched[e].matchMethod = "fuzzy"
    /\ Returned(other) = Returned(Running)
    /\ result.matched # other.result.matched


\* C14. Fully matched result: a run that ends with both unmatched lists empty
\* has matchPercentage 100, discrepancy 0 and status balanced; and a run on at
\* least one transaction has matchPercentage 100 only if both unmatched lists
\* are empty.
C14_FullyMatched ==
    Done =>
        /\ (ResultUnmatchedBank = <<>> /\ ResultUnmatchedBook = <<>>) =>
              /\ result.summary.matchPercentage = Num(100)
              /\ result.summary.discrepancy = Num(0)
              /\ result.summary.status = "balanced"
        /\ (Len(InputBank) + Len(InputBook) >= 1
            /\ result.summary.matchPercentage = Num(100)) =>
              (ResultUnmatchedBank = <<>> /\ ResultUnmatchedBook = <<>>)

\* One bank and one book transaction with identical amount, date and
\* reference: one exact match of confidence 1, nothing unmatched, 100 per
\* cent, balanced.
C14_Witness ==
    /\ Done
    /\ Len(InputBank) = 1 /\ Len(InputBook) = 1
    /\ InputBank[1].amount = InputBook[1].amount
    /\ InputBank[1].date = InputBook[1].date
    /\ InputBank[1].reference = InputBook[1].reference
    /\ Len(ResultMatched) = 1
    /\ ResultMatched[1].matchMethod = "exact"
    /\ ResultMatched[1].confidence = Num(1)
    /\ ResultUnmatchedBank = <<>> /\ ResultUnmatchedBook = <<>>
    /\ result.summary.matchPercentage = Num(100)
    /\ result.summary.status = "balanced"


\* The index of transaction tx in list (identifiers are unique in a list).
PositionIn(list, tx) == CHOOSE k \in 1..Len(list) : list[k] = tx

\* The result of call c with every transaction replaced by its position in
\* the input list it came from.
PairingOf(c) ==
    LET r == Returned(c)
    IN  [matched |->
            [e \in 1..Len(r.matched) |->
                [bank |-> PositionIn(c.called.bankTransactions,
                                     r.matched[e].bankTransaction),
                 book |-> PositionIn(c.called.bookTransactions,
                                     r.matched[e].bookTransaction),
                 matchMethod |-> r.matched[e].matchMethod,
                 confidence |-> r.matched[e].confidence]],
         unmatchedBank |->
            [k \in 1..Len(r.unmatchedBank) |->
                PositionIn(c.called.bankTransactions, r.unmatchedBank[k])],
         unmatchedBook |->
            [k \in 1..Len(r.unmatchedBook) |->
                PositionIn(c.called.bookTransactions, r.unmatchedBook[k])]]

\* The two lists hold, position by position, the same amount, date,
\* description and reference.
SameMatchingFields(list1, list2) ==
    /\ Len(list1) = Len(list2)
    /\ \A k \in 1..Len(list1) :
          /\ list1[k].amount = list2[k].amount
          /\ list1[k].date = list2[k].date
          /\ list1[k].description = list2[k].description
          /\ list1[k].reference = list2[k].reference

\* C15. Matching ignores informational fields: two runs whose inputs agree in
\* settings and, by position, in amount, date, description and reference
\* (and differ in type, category, id, metadata, account or period) return
\* the same pairs by position with the same method and confidence and leave
\* the same positions unmatched.
C15_InformationalFieldsIgnored ==
    (/\ other # NoCall
     /\ Done /\ other.pc = "done"
     /\ called.settings = other.called.settings
     /\ SameMatchingFields(called.bankTransactions, other.called.bankTransactions)
     /\ SameMatchingFields(called.bookTransactions, other.called.bookTransactions))
    => PairingOf(Running) = PairingOf(other)

\* Two finished runs on inputs that differ in every informational field: the
\* first paired a debit bank transaction with a credit book transaction
\* exactly, the second the credit bank transaction with the debit book
\* transaction at the same positions.
C15_Witness ==
    /\ other # NoCall /\ Done /\ other.pc = "done"
    /\ self = 1
    /\ data.account # other.data.account /\ data.period # other.data.period
    /\ Len(ResultMatched) >= 1
    /\ ResultMatched[1].matchMethod = "exact"
    /\ ResultMatched[1].bankTransaction.type = "debit"
    /\ ResultMatched[1].bookTransaction.type = "credit"
    /\ LET m == Returned(other).matched[1]
       IN  /\ m.bankTransaction.type = "credit"
           /\ m.bookTransaction.type = "debit"
           /\ m.bankTransaction.id # ResultMatched[1].bankTransaction.id
           /\ m.bankTransaction.category # ResultMatched[1].bankTransaction.category
           /\ m.bankTransaction.metadata # ResultMatched[1].bankTransaction.metadata
    /\ PairingOf(Running) = PairingOf(other)


\* seq without its k-th element.
Without(seq, k) ==
    [n \in 1..(Len(seq) - 1) |-> IF n < k THEN seq[n] ELSE seq[n + 1]]

\* The step is one of the running call (not the other call taking over).
OwnStep == self' = self /\ other' = other

\* C16. Phase 1 pairing rule: an iteration of phase 1 examining bank
\* transaction b pairs it (method exact, confidence 1) with the lowest-index
\* transaction of remainingBook that has b's amount, date and reference
\* (absent references are equal, descriptions are not compared) and removes
\* exactly these two from the working lists; if there is none, nothing
\* changes.
C16_PhaseOnePairing ==
    [][(pc = "findExactMatches" /\ OwnStep) =>
          LET bank == heap[remainingBankTransactions]
              book == heap[remainingBookTransactions]
              b == bank[i + 1]
              agreeing == {j \in 1..Len(book) : Agree(book[j], b)}
          IN  IF agreeing = {}
              THEN heap' = heap
              ELSE LET j == CHOOSE n \in agreeing : \A k \in agreeing : n <= k
                   IN  /\ heap'[remainingBankTransactions] = Without(bank, i + 1)
                       /\ heap'[remainingBookTransactions] = Without(book, j)
                       /\ heap'[matched] =
                             Append(heap[matched],
                                    [bankTransaction |-> b,
                                     bookTransaction |-> book[j],
                                     confidence |-> Num(1),
                                     matchMethod |-> "exact"])
                       /\ \A r \in DOMAIN heap :
                             r \notin {remainingBankTransactions,
                                       remainingBookTransactions, matched}
                                => heap'[r] = heap[r]
      ]_vars

\* Phase 1 has paired a bank transaction without reference with the first of
\* two book transactions that agree with it (both without reference); the
\* second one is still in the working book list.
C16_Witness ==
    /\ pc \in {"findFuzzyMatches", "calculateReconciliationSummary", "done"}
    /\ Len(InputBook) = 2
    /\ ~InputBook[1].reference.present /\ ~InputBook[2].reference.present
    /\ \E e \in 1..Len(heap[matched]) :
          /\ heap[matched][e].matchMethod = "exact"
          /\ heap[matched][e].bookTransaction = InputBook[1]
          /\ ~heap[matched][e].bankTransaction.reference.present
          /\ heap[matched][e].bankTransaction.description
                # heap[matched][e].bookTransaction.description
          /\ Agree(InputBook[2], heap[matched][e].bankTransaction)
    /\ Occurs(heap[remainingBookTransactions], InputBook[2]) = 1


\* Phase 1 of the running call is over.
AfterPhaseOne == pc \in {"findFuzzyMatches", "calculateReconciliationSummary", "done"}

\* The indices of the input bank transactions that agree exactly with book
\* transaction k, and of the input book transactions that agree with bank
\* transaction b.
BankAgreeing(k) == {m \in 1..Len(InputBank) : Agree(k, InputBank[m])}

BookAgreeing(b) == {n \in 1..Len(InputBook) : Agree(InputBook[n], b)}

\* C17. Phase 1 contention: when two or more bank transactions agree exactly
\* with one book transaction k, the only book transaction that agrees with
\* them, phase 1 (when enabled) pairs k with the one of them that is last in
\* the bank list and leaves the earlier ones without an exact match.
C17_PhaseOneContention ==
    (AfterPhaseOne /\ settings.autoMatchExact) =>
        \A n \in 1..Len(InputBook) :
            LET k == InputBook[n]
                B == BankAgreeing(k)
            IN  (Cardinality(B) >= 2 /\ BookAgreeing(k) = {n}) =>
                    LET last == CHOOSE m \in B : \A x \in B : x <= m
                    IN  /\ \E e \in 1..Len(heap[matched]) :
                              ExactPairOf(heap[matched][e], InputBank[last], k)
                        /\ \A m \in B \ {last} :
                              ~InExactPair(heap[matched], InputBank[m])

\* Phase 1 has just ended: of two bank transactions without reference that
\* agree with the single book transaction, the second is its exact match and
\* the first is still in the working bank list.
C17_Witness ==
    /\ pc = "findFuzzyMatches"
    /\ Len(InputBank) = 2 /\ Len(InputBook) = 1
    /\ ~InputBook[1].reference.present
    /\ BankAgreeing(InputBook[1]) = {1, 2}
    /\ Len(heap[matched]) = 1
    /\ ExactPairOf(heap[matched][1], InputBank[2], InputBook[1])
    /\ heap[remainingBankTransactions] = <<InputBank[1]>>
    /\ heap[remainingBookTransactions] = <<>>


\* x >= y for two computed numbers: false when either is NaN.
AtLeast(x, y) == NumGE(x, y)

\* C18. Phase 2 selection rule: an iteration of phase 2 examining bank
\* transaction b computes one confidence for every transaction of
\* remainingBook; among those with confidence >= fuzzyThreshold it takes the
\* highest confidence, and of equal highest the lowest index; it records the
\* pair with exactly that confidence and method fuzzy and removes the two; if
\* no confidence reaches the threshold, nothing changes.
C18_PhaseTwoSelection ==
    [][(pc = "findFuzzyMatches" /\ OwnStep) =>
          LET bank == heap[remainingBankTransactions]
              book == heap[remainingBookTransactions]
              b == bank[i + 1]
              c == confidences'
              candidates == {j \in 1..Len(book) : AtLeast(c[j], settings.fuzzyThreshold)}
              highest == {j \in candidates : \A k \in candidates : AtLeast(c[j], c[k])}
          IN  /\ Len(c) = Len(book)
              /\ IF candidates = {}
                 THEN heap' = heap
                 ELSE LET j == CHOOSE n \in highest : \A k \in highest : n <= k
                      IN  /\ heap'[remainingBankTransactions] = Without(bank, i + 1)
                          /\ heap'[remainingBookTransactions] = Without(book, j)
                          /\ heap'[matched] =
                                Append(heap[matched],
                                       [bankTransaction |-> b,
                                        bookTransaction |-> book[j],
                                        confidence |-> c[j],
                                        matchMethod |-> "fuzzy"])
      ]_vars

\* Phase 2 has examined the only bank transaction against two book
\* transactions of equal confidence at or above the threshold: it is paired
\* with the first, with that confidence, and the second stays.
C18_Witness ==
    /\ pc = "calculateReconciliationSummary"
    /\ Len(InputBank) = 1 /\ Len(InputBook) = 2
    /\ Len(confidences) = 2
    /\ confidences[1] = confidences[2]
    /\ AtLeast(confidences[1], settings.fuzzyThreshold)
    /\ heap[matched] =
          << [bankTransaction |-> InputBank[1], bookTransaction |-> InputBook[1],
              confidence |-> confidences[1], matchMethod |-> "fuzzy"] >>
    /\ heap[remainingBookTransactions] = <<InputBook[2]>>
    /\ heap[remainingBankTransactions] = <<>>


\* The index in book of the best candidate of bank transaction x under the
\* settings of the run: the lowest index of the highest confidence at or
\* above fuzzyThreshold, or 0 when there is no candidate.
BestCandidate(x, book) ==
    LET c == [j \in 1..Len(book) |-> calculateMatchConfidence(x, book[j], settings)]
        candidates == {j \in 1..Len(book) : AtLeast(c[j], settings.fuzzyThreshold)}
        highest == {j \in candidates : \A k \in candidates : AtLeast(c[j], c[k])}
    IN  IF candidates = {} THEN 0
        ELSE CHOOSE n \in highest : \A k \in highest : n <= k

\* C19. Phase 2 claim order: when phase 2 examines bank transaction b and the
\* best candidate of b in remainingBook is also the best candidate of a bank
\* transaction of lower index still in remainingBank, b is paired with it:
\* the candidate leaves remainingBook, the lower-index bank transactions stay
\* in remainingBank, and no transaction of the book list a step scans is the
\* book side of a recorded pair.
C19_PhaseTwoClaimOrder ==
    [][(pc = "findFuzzyMatches" /\ OwnStep) =>
          LET bank == heap[remainingBankTransactions]
              book == heap[remainingBookTransactions]
              b == bank[i + 1]
              j == BestCandidate(b, book)
          IN  /\ \A e \in 1..Len(heap[matched]) :
                    Occurs(book, heap[matched][e].bookTransaction) = 0
              /\ (j # 0 /\ \E m \in 1..i : BestCandidate(bank[m], book) = j) =>
                    /\ Len(heap'[matched]) = Len(heap[matched]) + 1
                    /\ heap'[matched][Len(heap'[matched])].bankTransaction = b
                    /\ heap'[matched][Len(heap'[matched])].bookTransaction = book[j]
                    /\ Occurs(heap'[remainingBookTransactions], book[j]) = 0
                    /\ heap'[remainingBankTransactions] = Without(bank, i + 1)
                    /\ \A m \in 1..i : heap'[remainingBankTransactions][m] = bank[m]
      ]_vars

\* A finished run without exact matches: the first book transaction was the
\* best candidate of both bank transactions; the second bank transaction has
\* it, and the first was then compared with the remaining book transaction
\* only and stays unmatched.
C19_Witness ==
    /\ Done
    /\ Len(InputBank) = 2 /\ Len(InputBook) = 2
    /\ BestCandidate(InputBank[1], InputBook) = 1
    /\ BestCandidate(InputBank[2], InputBook) = 1
    /\ Len(ResultMatched) = 1
    /\ ResultMatched[1].matchMethod = "fuzzy"
    /\ ResultMatched[1].bankTransaction = InputBank[2]
    /\ ResultMatched[1].bookTransaction = InputBook[1]
    /\ ResultUnmatchedBank = <<InputBank[1]>>
    /\ ResultUnmatchedBook = <<InputBook[2]>>
    /\ Len(confidences) = 1


\* seq is an initial part of longer.
IsPrefix(seq, longer) ==
    /\ Len(seq) <= Len(longer)
    /\ \A n \in 1..Len(seq) : longer[n] = seq[n]

\* C20. Greedy phase 2: a step of phase 2 records at most one new pair after
\* the pairs already recorded and changes none of those; the working lists
\* only lose transactions.  (That the result can hold fewer pairs than another
\* one-to-one assignment at or above the threshold is the witness below.)
C20_GreedyNeverRevises ==
    [][(pc = "findFuzzyMatches" /\ OwnStep) =>
          /\ IsPrefix(heap[matched], heap'[matched])
          /\ Len(heap'[matched]) <= Len(heap[matched]) + 1
          /\ \A n \in 1..Len(heap'[remainingBankTransactions]) :
                Occurs(heap[remainingBankTransactions],
                       heap'[remainingBankTransactions][n]) = 1
          /\ \A n \in 1..Len(heap'[remainingBookTransactions]) :
                Occurs(heap[remainingBookTransactions],
                       heap'[remainingBookTransactions][n]) = 1
      ]_vars

\* A finished run of phase 2 alone on two bank and two book transactions
\* that returned one pair, bank 2 with book 1, although bank 1 with book 1
\* and bank 2 with book 2 both reach the threshold.
C20_Witness ==
    /\ Done
    /\ ~settings.autoMatchExact /\ settings.fuzzyMatching
    /\ Len(InputBank) = 2 /\ Len(InputBook) = 2
    /\ Len(ResultMatched) = 1
    /\ ResultMatched[1].bankTransaction = InputBank[2]
    /\ ResultMatched[1].bookTransaction = InputBook[1]
    /\ ResultUnmatchedBank = <<InputBank[1]>>
    /\ ResultUnmatchedBook = <<InputBook[2]>>
    /\ AtLeast(calculateMatchConfidence(InputBank[1], InputBook[1], settings),
               settings.fuzzyThreshold)
    /\ AtLeast(calculateMatchConfidence(InputBank[2], InputBook[2], settings),
               settings.fuzzyThreshold)


(***************************************************************************)
(* calculateMatchConfidence called on its own                              *)
(***************************************************************************)
\* The variables of a call of a function of the module other than
\* processReconciliation: data holds the arguments, result the returned
\* value, and no array is allocated.
FunctionCall(name, arguments) ==
    /\ pc = name
    /\ data = arguments
    /\ called = arguments
    /\ result = Undefined
    /\ settings = Undefined
    /\ remainingBankTransactions = "null"
    /\ remainingBookTransactions = "null"
    /\ matched = "null"
    /\ i = -1
    /\ confidences = <<>>
    /\ self = 1
    /\ other = NoCall
    /\ heap = [r \in ArrayRefs |-> <<>>]

\* The function returns value to its caller.
Return(value) ==
    /\ result' = value
    /\ pc' = "returned"
    /\ UNCHANGED <<data, heap, called, settings, remainingBankTransactions,
                   remainingBookTransactions, matched, i, confidences, self,
                   other>>

CallMatchConfidence ==
    /\ pc = "calculateMatchConfidence"
    /\ Return(calculateMatchConfidence(data.bankTx, data.bookTx, data.settings))

NextConfidence == CallMatchConfidence

MaxDays == 4

InitConfidence ==
    \E f \in [amount : {Num(100)}, date : {Day(0)},
              description : {<<>>, StrRent},
              reference : {NoReference, Reference(<<>>), Reference(StrR1)}],
       g \in [amount : Amounts, date : {Day(n) : n \in 0..MaxDays},
              description : {<<>>, StrRent, StrRentPaid},
              reference : {NoReference, Reference(<<>>), Reference(StrR1)}],
       \* the settings object processReconciliation passes on, with every
       \* combination of the four matchBy flags and a tolerance of 0, 1 or 3 days
       s \in {[DefaultSettings EXCEPT !.matchByAmount = a, !.matchByDate = d,
                                      !.matchByDescription = t, !.matchByReference = r,
                                      !.dateTolerance = Num(n)]
                 : a \in BOOLEAN, d \in BOOLEAN, t \in BOOLEAN, r \in BOOLEAN,
                   n \in {0, 1, 3}} :
        FunctionCall("calculateMatchConfidence",
                     [bankTx |-> Transaction("b1", "debit", f),
                      bookTx |-> Transaction("k1", "credit", g),
                      settings |-> s])

SpecConfidence == InitConfidence /\ [][NextConfidence]_vars

\* The weight of a factor in tenths when it is evaluated, 0 when it is not.
Tenths(evaluated, weight) == IF evaluated THEN weight ELSE 0

DescriptionEvaluated(b, k, s) ==
    s.matchByDescription /\ Len(b.description) > 0 /\ Len(k.description) > 0

ReferenceEvaluated(b, k, s) ==
    /\ s.matchByReference
    /\ b.reference.present /\ Len(b.reference.value) > 0
    /\ k.reference.present /\ Len(k.reference.value) > 0

EvaluatedWeight(b, k, s) ==
    Tenths(s.matchByAmount, 4) + Tenths(s.matchByDate, 3)
    + Tenths(DescriptionEvaluated(b, k, s), 2)
    + Tenths(ReferenceEvaluated(b, k, s), 1)

AmountAward(b, k, s) ==
    IF s.matchByAmount /\ b.amount = k.amount THEN Rat(4, 10) ELSE Num(0)

\* What the date block adds to the score.
DateAward(b, k, s) ==
    DateFactor([totalScore |-> Num(0), totalWeight |-> Num(0)], b, k, s).totalScore

DescriptionAward(b, k, s) ==
    IF DescriptionEvaluated(b, k, s)
    THEN NumMul(Rat(2, 10),
                calculateStringSimilarity(ToLowerCase(b.description),
                                          ToLowerCase(k.description)))
    ELSE Num(0)

ReferenceAward(b, k, s) ==
    IF ReferenceEvaluated(b, k, s)
    THEN NumMul(Rat(1, 10),
                calculateStringSimilarity(ToLowerCase(b.reference.value),
                                          ToLowerCase(k.reference.value)))
    ELSE Num(0)

SumOfAwards(b, k, s) ==
    NumAdd(NumAdd(AmountAward(b, k, s), DateAward(b, k, s)),
           NumAdd(DescriptionAward(b, k, s), ReferenceAward(b, k, s)))

NormalizedConfidence(b, k, s) ==
    IF EvaluatedWeight(b, k, s) = 0 THEN Num(0)
    ELSE NumDiv(SumOfAwards(b, k, s), Rat(EvaluatedWeight(b, k, s), 10))

\* C21: the confidence of a pair is the sum of the awards of the evaluated
\* factors divided by the sum of their weights (amount 0.4, date 0.3,
\* description 0.2, reference 0.1).  Amount and date are evaluated when
\* their flag is on, description and reference only when the flag is on and
\* both transactions have a non-empty value.  The amount factor awards 0.4
\* for exactly equal amounts and nothing otherwise.  With no factor
\* evaluated the confidence is 0.
C21_ConfidenceNormalization ==
    pc = "returned" /\ "bankTx" \in DOMAIN data =>
        Same(result, NormalizedConfidence(data.bankTx, data.bookTx, data.settings))

\* A pair with all four flags on, an empty bank description and no book
\* reference, different amounts and the same date: 0.3 of the 0.7 evaluated.
C21_Witness ==
    /\ pc = "returned" /\ "bankTx" \in DOMAIN data
    /\ data.settings.matchByAmount /\ data.settings.matchByDate
    /\ data.settings.matchByDescription /\ data.settings.matchByReference
    /\ data.bankTx.description = <<>> /\ data.bookTx.description # <<>>
    /\ data.bankTx.reference.present /\ ~data.bookTx.reference.present
    /\ data.bankTx.amount # data.bookTx.amount
    /\ data.bankTx.date = data.bookTx.date
    /\ Near(result, Rat(3, 7))

\* The absolute difference of the two dates in days.
DayDifference(b, k) == Rat(Abs(b.date - k.date), MsPerDay)

\* The date award as the specification states it: the full 0.3 for
\* identical dates, 0.3 * (1 - d/dateTolerance) within the tolerance, 0
\* beyond it.
StatedDateAward(b, k, s) ==
    LET d == DayDifference(b, k)
    IN  IF ~s.matchByDate THEN Num(0)
        ELSE IF d = Num(0) /\ NumLE(d, s.dateTolerance) THEN Rat(3, 10)
        ELSE IF NumLE(d, s.dateTolerance)
             THEN NumMul(Rat(3, 10), NumSub(Num(1), NumDiv(d, s.dateTolerance)))
        ELSE Num(0)

StatedConfidence(b, k, s) ==
    IF EvaluatedWeight(b, k, s) = 0 THEN Num(0)
    ELSE NumDiv(NumAdd(NumAdd(AmountAward(b, k, s), StatedDateAward(b, k, s)),
                       NumAdd(DescriptionAward(b, k, s), ReferenceAward(b, k, s))),
                Rat(EvaluatedWeight(b, k, s), 10))

\* C22: with matchByDate on, a pair whose dates are d days apart with
\* d <= dateTolerance is awarded 0.3 * (1 - d/dateTolerance), the full 0.3
\* when the dates are identical and 0 when d equals the tolerance; a pair
\* with d > dateTolerance is awarded 0; the weight 0.3 is counted in the
\* normalization in both cases.
C22_DateFactor ==
    pc = "returned" /\ "bankTx" \in DOMAIN data /\ data.settings.matchByDate =>
        Same(result, StatedConfidence(data.bankTx, data.bookTx, data.settings))

(***************************************************************************)
(* calculateStringSimilarity called on its own                             *)
(***************************************************************************)
CallStringSimilarity ==
    /\ pc = "calculateStringSimilarity"
    /\ Return(calculateStringSimilarity(data.str1, data.str2))

NextSimilarity == CallStringSimilarity

MaxStringLen == 5

\* The non-empty strings of at most n characters over a, b and the space.
\* Both callers of calculateStringSimilarity pass it strings they have
\* tested to be truthy (formatter.ts 439 and 452) and then lower-cased, so
\* neither argument is ever the empty string.
Strings(n) == UNION {[1..m -> {97, 98, 32}] : m \in 1..n}

InitSimilarity ==
    \E str1 \in Strings(MaxStringLen), str2 \in Strings(MaxStringLen) :
        FunctionCall("calculateStringSimilarity", [str1 |-> str1, str2 |-> str2])

SpecSimilarity == InitSimilarity /\ [][NextSimilarity]_vars

\* The whitespace-separated tokens of s: its maximal runs of characters
\* that are not white space.
RECURSIVE Tokens(_)
Tokens(s) ==
    LET a == NextNonSpace(s, 1)
    IN  IF a > Len(s) THEN <<>>
        ELSE LET e == NextSpace(s, a)
             IN  <<SubSeq(s, a, e - 1)>> \o Tokens(SubSeq(s, e, Len(s)))

\* The tokens of the first string longer than 3 characters that contain, or
\* are contained in, some token of the second.
MatchingTokens(t1, t2) ==
    {n \in 1..Len(t1) :
        /\ Len(t1[n]) > 3
        /\ \E k \in 1..Len(t2) : Includes(t2[k], t1[n]) \/ Includes(t1[n], t2[k])}

StatedSimilarity(str1, str2) ==
    IF str1 = str2 THEN Num(1)
    ELSE IF Includes(str1, str2) \/ Includes(str2, str1) THEN Rat(8, 10)   \* return 0.8
    ELSE LET t1 == Tokens(str1)
             t2 == Tokens(str2)
             tokenCount == IF Len(t1) > 1 THEN Len(t1) ELSE 1
         IN  MathMin(Num(1), Rat(Cardinality(MatchingTokens(t1, t2)), tokenCount))

\* C23: equal strings give 1.0; otherwise a string that contains the other
\* gives 0.8; otherwise the result is min(1, matchCount / max(tokenCount of
\* the first, 1)), matchCount being the number of whitespace-separated
\* tokens of the first string longer than 3 characters that contain, or are
\* contained in, some token of the second; the result is in [0,1].
C23_SimilarityRules ==
    pc = "returned" /\ "str1" \in DOMAIN data =>
        /\ result = StatedSimilarity(data.str1, data.str2)
        /\ NumGE(result, Num(0)) /\ NumLE(result, Num(1))

\* The two switches as the caller set them, true when left out.
ExactEnabled == Effective(called.settings.autoMatchExact, TRUE)

FuzzyEnabled == Effective(called.settings.fuzzyMatching, TRUE)

\* No recorded pair has the method.
NoEntryOf(pairs, method) == \A n \in 1..Len(pairs) : pairs[n].matchMethod # method

\* What the switches mean for the returned result.
SwitchesRespected ==
    /\ ~ExactEnabled => NoEntryOf(ResultMatched, "exact")
    /\ ~FuzzyEnabled => NoEntryOf(ResultMatched, "fuzzy")
    /\ ~ExactEnabled /\ ~FuzzyEnabled =>
          /\ ResultMatched = <<>>
          /\ ResultUnmatchedBank = InputBank
          /\ ResultUnmatchedBook = InputBook

\* Transaction tx is a side of a pair already recorded.
Paired(pairs, tx) ==
    \E n \in 1..Len(pairs) :
        pairs[n].bankTransaction = tx \/ pairs[n].bookTransaction = tx

\* C25. Phase switches: with autoMatchExact false no matched entry has method
\* exact; with fuzzyMatching false none has method fuzzy; with both false
\* matched is empty and the unmatched lists are the input lists.  With both
\* on, phase 1 is entered first, is left only after its last iteration (index
\* 0) and never re-entered from phase 2, and every transaction phase 2 reads
\* is one no pair of phase 1 holds.
C25_PhaseSwitches ==
    [][OwnStep =>
        /\ pc' = "done" => SwitchesRespected'
        /\ pc = "matchTransactions" /\ ExactEnabled /\ FuzzyEnabled
           /\ InputBank # <<>> => pc' = "findExactMatches"
        /\ pc = "findExactMatches" /\ pc' # pc => i = 0
        /\ pc = "findFuzzyMatches" =>
              /\ pc' # "findExactMatches"
              /\ \A n \in 1..Len(heap[remainingBankTransactions]) :
                    ~Paired(heap[matched], heap[remainingBankTransactions][n])
              /\ \A n \in 1..Len(heap[remainingBookTransactions]) :
                    ~Paired(heap[matched], heap[remainingBookTransactions][n])]_vars

\* Both switches on, and a returned result that holds an exact pair before a
\* fuzzy one.
C25_Witness ==
    /\ Done /\ ExactEnabled /\ FuzzyEnabled
    /\ Len(ResultMatched) = 2
    /\ ResultMatched[1].matchMethod = "exact"
    /\ ResultMatched[2].matchMethod = "fuzzy"

(***************************************************************************)
(* One call of processReconciliation, run to completion                    *)
(***************************************************************************)
\* The steps of a call that no other call interleaves with.
NextAlone ==
    \/ ApplyDefaults
    \/ MatchTransactions
    \/ ExactIteration
    \/ FuzzyIteration
    \/ Summarize

InitAlone ==
    \E bank \in Lists(CallsBankFields, BankIds, "debit", MaxBank),
       book \in Lists(BookFields, BookIds, "credit", MaxBook),
       s \in {NoSettings,
              [EmptySettings EXCEPT !.fuzzyThreshold = {Rat(1, 2)}],
              [EmptySettings EXCEPT !.autoMatchExact = {FALSE}],
              [EmptySettings EXCEPT !.fuzzyMatching = {FALSE}]} :
        InitWith(bank, book, s)

\* Where the call is: the function it is in and the index of its loop.
position == <<pc, i>>

\* The call moves on from a position that is not its end.
Proceed ==
    /\ pc # "done"
    /\ pc' \in {"matchTransactions", "findExactMatches", "findFuzzyMatches",
                "calculateReconciliationSummary", "done"}
    /\ i' \in -1..Len(heap[data.bankTransactions])

\* The function is synchronous: a call that has not returned executes its
\* next statement, and every step of NextAlone changes the position.
SpecAlone == InitAlone /\ [][NextAlone]_vars /\ WF_position(Proceed)

InPhase == pc \in {"findExactMatches", "findFuzzyMatches"}

\* One step of a phase: it examines the bank transaction at index i, leaves
\* the transactions below i where they are, removes the examined one or
\* nothing, and goes on to index i - 1 or, from index 0, leaves the phase.
PhaseStep ==
    LET bank == heap[remainingBankTransactions]
        after == heap'[remainingBankTransactions]
    IN  /\ 0 <= i /\ i < Len(bank)
        /\ after = bank \/ after = Without(bank, i + 1)
        /\ SubSeq(after, 1, i) = SubSeq(bank, 1, i)
        /\ IF i > 0 THEN pc' = pc /\ i' = i - 1 ELSE pc' # pc

\* A phase starts at the last index of the list it is given.
PhaseEntry ==
    /\ pc' # pc /\ pc' \in {"findExactMatches", "findFuzzyMatches"} =>
          i' = Len(heap'[remainingBankTransactions']) - 1
    /\ pc = "matchTransactions" /\ InputBank # <<>> /\ (ExactEnabled \/ FuzzyEnabled) =>
          pc' \in {"findExactMatches", "findFuzzyMatches"}
    /\ pc = "findExactMatches" /\ pc' # pc /\ FuzzyEnabled
       /\ heap'[remainingBankTransactions] # <<>> => pc' = "findFuzzyMatches"

\* C26. Traversal and termination: a phase starts at the last index of
\* remainingBank, each of its steps examines the transaction at the current
\* index and moves to the index below, and a removal takes out only the
\* examined transaction, so the transactions still to be examined keep their
\* indices: every transaction present at the start of the phase is examined
\* exactly once, in decreasing index order, none is skipped or examined
\* again.  Every call of processReconciliation returns.
C26_TraversalAndTermination ==
    /\ [](InPhase => 0 <= i /\ i < Len(heap[remainingBankTransactions]))
    /\ [][PhaseEntry /\ (InPhase => PhaseStep)]_vars
    /\ <>Done

\* Phase 1 has removed the pair of the last bank transaction and is about to
\* examine the first one.
C26_Witness ==
    /\ pc = "findExactMatches" /\ i = 0
    /\ Len(InputBank) = 2
    /\ Len(heap[matched]) = 1
    /\ heap[remainingBankTransactions] = <<InputBank[1]>>

\* C27. Phase 1 completeness: with autoMatchExact enabled, in the returned
\* result no transaction of unmatchedBank has the amount, the date and the
\* reference (both absent included) of a transaction of unmatchedBook: of
\* every pair that agrees exactly at least one member is in a match.
C27_PhaseOneCompleteness ==
    Done /\ ExactEnabled =>
        \A m \in 1..Len(ResultUnmatchedBank), n \in 1..Len(ResultUnmatchedBook) :
            ~Agree(ResultUnmatchedBook[n], ResultUnmatchedBank[m])

\* Phase 1 alone has paired two transactions without references and left a
\* transaction on each side.
C27_Witness ==
    /\ Done /\ ExactEnabled /\ ~FuzzyEnabled
    /\ Len(ResultMatched) = 1
    /\ ~ResultMatched[1].bankTransaction.reference.present
    /\ ~ResultMatched[1].bookTransaction.reference.present
    /\ Len(ResultUnmatchedBank) = 1
    /\ Len(ResultUnmatchedBook) = 1

\* C28. Phase 2 maximality: with fuzzyMatching enabled, in the returned
\* result no unmatched bank transaction and unmatched book transaction have
\* a confidence, under the settings in force, at or above fuzzyThreshold.
C28_PhaseTwoMaximality ==
    Done /\ FuzzyEnabled =>
        \A m \in 1..Len(ResultUnmatchedBank), n \in 1..Len(ResultUnmatchedBook) :
            ~AtLeast(calculateMatchConfidence(ResultUnmatchedBank[m],
                                              ResultUnmatchedBook[n], settings),
                     settings.fuzzyThreshold)

\* Phase 2 has recorded a pair and left a transaction on each side, the two
\* having a confidence above 0.
C28_Witness ==
    /\ Done /\ FuzzyEnabled
    /\ \E n \in 1..Len(ResultMatched) : ResultMatched[n].matchMethod = "fuzzy"
    /\ Len(ResultUnmatchedBank) = 1
    /\ Len(ResultUnmatchedBook) = 1
    /\ AtLeast(calculateMatchConfidence(ResultUnmatchedBank[1],
                                        ResultUnmatchedBook[1], settings),
               Rat(1, 2))

(***************************************************************************)
(* processReconciliation under the default settings                        *)
(***************************************************************************)
InitDefaults ==
    \E bank \in Lists([amount : {Num(100)}, date : {Day(0)},
                       description : {<<>>, StrRent},
                       reference : {NoReference, Reference(StrR1)}],
                 BankIds, "debit", MaxBank),
       book \in Lists([amount : Amounts, date : Dates,
                       description : {StrRent},
                       reference : {NoReference, Reference(StrR1)}],
                 BookIds, "credit", MaxBook),
       \* data.settings absent or without a field
       s \in {NoSettings, EmptySettings} :
        InitAloneOrShared(bank, book, s)

SpecDefaults == InitDefaults /\ [][Next]_vars

\* The caller supplied no setting.
DefaultsInForce ==
    \/ ~called.settings.given
    \/ called.settings = EmptySettings

\* The sum of the book-side amounts of the first n pairs.
RECURSIVE BookSideSum(_, _)
BookSideSum(pairs, n) ==
    IF n = 0 THEN Num(0)
    ELSE NumAdd(BookSideSum(pairs, n - 1), pairs[n].bookTransaction.amount)

\* C29. Equal amounts under defaults: with the default settings every
\* matched pair, exact or fuzzy, has equal bank and book amounts, no pair of
\* different amounts reaches a confidence above 0.6 (up to the rounding of
\* the arithmetic, and so none reaches the threshold 0.7), and matchedAmount
\* is also the sum of the book-side amounts of the matched pairs.
C29_EqualAmountsUnderDefaults ==
    Done /\ DefaultsInForce =>
          /\ \A n \in 1..Len(ResultMatched) :
                ResultMatched[n].bankTransaction.amount
                    = ResultMatched[n].bookTransaction.amount
          /\ \A m \in 1..Len(InputBank), n \in 1..Len(InputBook) :
                InputBank[m].amount # InputBook[n].amount =>
                    /\ AtMost(calculateMatchConfidence(InputBank[m], InputBook[n],
                                                       settings), Rat(6, 10))
                    /\ NumLT(calculateMatchConfidence(InputBank[m], InputBook[n],
                                                      settings), Rat(7, 10))
          /\ result.summary.matchedAmount
                = BookSideSum(ResultMatched, Len(ResultMatched))

\* Under the defaults a pair of equal amounts was matched by phase 2 and a
\* pair that differs in the amount alone, of confidence 0.6, was left.
C29_Witness ==
    /\ Done /\ DefaultsInForce
    /\ \E n \in 1..Len(ResultMatched) : ResultMatched[n].matchMethod = "fuzzy"
    /\ Len(ResultUnmatchedBank) = 1
    /\ Len(ResultUnmatchedBook) = 1
    /\ Near(calculateMatchConfidence(ResultUnmatchedBank[1], ResultUnmatchedBook[1],
                                     settings), Rat(6, 10))

(***************************************************************************)
(* processReconciliation on longer lists                                   *)
(***************************************************************************)
MaxOrder == 3

\* Lists of at most MaxOrder transactions that differ in the amount alone.
InitOrder ==
    \E bank \in Lists(CallsBankFields, <<"b1", "b2", "b3", "b4">>, "debit", MaxOrder),
       book \in Lists(CallsBookFields, <<"k1", "k2", "k3", "k4">>, "credit", MaxOrder),
       s \in {NoSettings,
              [EmptySettings EXCEPT !.fuzzyThreshold = {Rat(1, 2)}],
              [EmptySettings EXCEPT !.autoMatchExact = {FALSE}],
              [EmptySettings EXCEPT !.fuzzyMatching = {FALSE}]} :
        InitAloneOrShared(bank, book, s)

SpecOrder == InitOrder /\ [][Next]_vars

\* seq is a subsequence of list: its elements occur in list in the same
\* order, taken from position k on.
RECURSIVE IsSubsequenceFrom(_, _, _)
IsSubsequenceFrom(seq, list, k) ==
    IF seq = <<>> THEN TRUE
    ELSE IF k > Len(list) THEN FALSE
    ELSE IF list[k] = Head(seq) THEN IsSubsequenceFrom(Tail(seq), list, k + 1)
    ELSE IsSubsequenceFrom(seq, list, k + 1)

\* C30. Order preservation: unmatchedBank is a subsequence of the input bank
\* list and unmatchedBook a subsequence of the input book list, and in
\* matched every exact entry precedes every fuzzy entry.
C30_OrderPreservation ==
    Done =>
        /\ IsSubsequenceFrom(ResultUnmatchedBank, InputBank, 1)
        /\ IsSubsequenceFrom(ResultUnmatchedBook, InputBook, 1)
        /\ \A m \in 1..Len(ResultMatched), n \in 1..Len(ResultMatched) :
              ResultMatched[m].matchMethod = "exact"
              /\ ResultMatched[n].matchMethod = "fuzzy" => m < n

\* Of three bank transactions the middle one is matched and the first and
\* the last are returned in their order; two of three book transactions are
\* left; matched holds an exact pair.
C30_Witness ==
    /\ Done
    /\ Len(InputBank) = 3 /\ Len(InputBook) = 3
    /\ ResultUnmatchedBank = <<InputBank[1], InputBank[3]>>
    /\ Len(ResultUnmatchedBook) = 2
    /\ Len(ResultMatched) = 1
    /\ ResultMatched[1].matchMethod = "exact"

=============================================================================
